---------------------------- MODULE Spec2Model ----------------------------
(***************************************************************************)
(* A model of aider-agent: the I/O bridge that turns the interactive tool  *)
(* into a request/response API (aider/api_aider.py), the bounded agent     *)
(* loop (aider/api_helpers.py), and the repository automation              *)
(* (aider/api_agent.py, aider/api.py).                                     *)
(*                                                                         *)
(* Texts the code inspects (confirmation questions, the quota warning,     *)
(* token figures) are tuples of one-character strings, so that substring   *)
(* tests and character classes are computed as the code computes them.     *)
(***************************************************************************)
EXTENDS Integers, Sequences, FiniteSets, TLC

VARIABLES
    \* ---- app.io, the APIInputOutput session (api_aider.py:34-48)
    has_io,                       \* hasattr(app, "io")
    coder,                        \* app.io.coder is set
    current_response,             \* the event buffer
    input_queue,                  \* queue.Queue(): FIFO, unbounded
    current_edit_format,
    files_added_in_current_chat,
    \* ---- the wrapped tool's file sets, as it reports them
    rel_fnames,                   \* coder.get_inchat_relative_files()
    rel_read_only_fnames,         \* coder.abs_read_only_fnames, made relative
    \* ---- the server: one event loop runs one handler at a time
    handler,                      \* "idle" | "init" | "chat" | "agent"
    pc,                           \* "-" | "run" (tool running) | "get" (in input_queue.get())
    inbox,                        \* requests that arrived and are not yet handled
    result,                       \* what the last finished handler returned
    last_ret,                     \* the last bridge callback and the value it returned
    \* ---- conversation(), the agent loop (api_helpers.py:77-110)
    messages,                     \* the transcript
    loop_pc,                      \* "off" | "call" | "dispatch" | "done" | "raised"
    iter,                         \* i of `for i in range(5)`
    conv_ret,                     \* what conversation() returned
    \* ---- the agent endpoint (api_agent.py:184-223, api.py:411-440)
    agent_pc,                     \* the step the running agent request is at
    env,                          \* os.environ: REPO_URL and GITHUB_TOKEN unset, empty or
                                  \* set; URL on github.com; URL with owner and name
    clock,                        \* datetime.now() in whole seconds
    branch,                       \* the branch name generated for this request
    agent_result,                 \* the response of the agent endpoint
    \* ---- the working directory and the remote host
    app_dir,                      \* the working directory of the last request that
                                  \* reached setup_repository: "/app" or "./temp"
    other_dir,                    \* the state of the other of the two directories
    dir_exists,                   \* app_dir exists
    git_dir,                      \* app_dir/.git exists
    remotes,                      \* remotes registered in the local repository
    tracking,                     \* remote-tracking refs: pairs <<branch name, commit>>
    heads,                        \* local branches: pairs <<name, commit>>
    head,                         \* the checked-out branch, "-" when none
    parent,                       \* pairs <<commit, its parent>>, parent 0 for a root
    host_refs,                    \* branches on the remote host: pairs <<name, commit>>
    \* ---- history
    ops,                          \* commands the running agent request has issued,
                                  \* with the host's answers to creation requests
    started,                      \* the repository as the running request found it
    runs,                         \* the agent requests that have ended
    asked,                        \* add-file confirmations since the last get_input
    dispatch_events,              \* events appended since the running handler started
    gets,                         \* get_input calls since the running dispatch began
    llm_calls,                    \* chat-completion calls made by the running loop
    dispatches                    \* chat_with_aider_api calls made by the running loop

bridgeVars == <<has_io, coder, current_response, input_queue, current_edit_format,
                files_added_in_current_chat>>
toolVars   == <<rel_fnames, rel_read_only_fnames>>
serverVars == <<handler, pc, inbox, result, last_ret>>
histVars   == <<asked, dispatch_events, gets>>
loopVars   == <<messages, loop_pc, iter, conv_ret, llm_calls, dispatches>>

agentVars  == <<agent_pc, env, clock, branch, agent_result>>
dirVars    == <<app_dir, other_dir>>
repoVars   == <<dir_exists, git_dir, remotes, tracking, heads, head, parent, host_refs>>
runVars    == <<ops, started, runs>>
gitVars    == <<agentVars, dirVars, repoVars, runVars>>

vars == <<bridgeVars, toolVars, serverVars, histVars, loopVars, gitVars>>

-----------------------------------------------------------------------------
(* Bounds of the model.                                                    *)

MaxBuf     == 2     \* events in the buffer before the tool stops calling back
MaxQueue   == 2     \* values on the input queue
MaxInbox   == 1     \* requests waiting for the event loop
MaxAsked   == 6     \* add-file confirmations without a get_input between them
MaxTokLen  == 5     \* characters of a token figure
MaxRouteBuf == 1    \* events in the buffer of a dispatch in SpecRoute
MaxLoopAsked == 1   \* add-file confirmations of a loop dispatch without a get_input between
MaxLoopBuf == 2     \* events in the buffer of a dispatch made by the agent loop
MaxRuns    == 2     \* agent requests in a row
MaxAgentRuns == 1   \* agent requests with a conversation
MaxClock   == 1     \* seconds that pass
MaxCommits == 2     \* commits in existence

-----------------------------------------------------------------------------
(* Texts.                                                                  *)

IsPrefixAt(pat, s, i) ==
    /\ i + Len(pat) - 1 <= Len(s)
    /\ \A k \in 1..Len(pat) : s[i + k - 1] = pat[k]

\* Python's `pat in s` on strings.
Contains(pat, s) == \E i \in 1..(Len(s) + 1) : IsPrefixAt(pat, s, i)

AddPat       == <<"A","d","d">>
ToTheChatPat == <<"t","o"," ","t","h","e"," ","c","h","a","t">>
CreatePat    == <<"D","o"," ","y","o","u"," ","w","a","n","t"," ","t","o"," ","c","r","e","a","t","e">>

Q_AddFile == <<"A","d","d"," ","a",".","p","y"," ","t","o"," ","t","h","e"," ","c","h","a","t","?">>
Q_Create  == <<"D","o"," ","y","o","u"," ","w","a","n","t"," ","t","o"," ","c","r","e","a","t","e"," ","b",".","p","y","?">>
Q_AddDocs == <<"A","d","d"," ","d","o","c","s","?">>
Q_Run     == <<"R","u","n"," ","s","h","e","l","l"," ","c","o","m","m","a","n","d","?">>

Questions == {Q_AddFile, Q_Create, Q_AddDocs, Q_Run}

\* The questions among them that ask to add a file to the session.
AddFileQuestions == {Q_AddFile, Q_Create}

LimitWarning == <<"F","i","l","e"," ","l","i","m","i","t"," ","o","f"," ","4"," ","f","i","l","e","s"," ","p","e","r"," ","c","h","a","t"," ","s","e","s","s","i","o","n"," ","e","x","c","e","e","d","e","d","."," ","R","e","j","e","c","t","i","n","g"," ","a","d","d","i","t","i","o","n","a","l"," ","f","i","l","e",".">>
LimitPhrase  == <<"F","i","l","e"," ","l","i","m","i","t"," ","o","f"," ","4"," ","f","i","l","e","s">>

\* The cap of confirm_ask (api_aider.py:164).
FileLimit == 4

-----------------------------------------------------------------------------
(* File snapshots: format_files_for_input (api_aider.py:66-80).             *)
(* A path is the tuple of its components; Root is the directory the        *)
(* relative paths are resolved against (self.root).                        *)

Root == <<"w">>
P_a  == <<"a.py">>
P_b  == <<"..", "..", "b.py">>
Paths == {P_a, P_b}

\* The paths in the order Python's sorted() gives their relative spellings
\* ("../../b.py" < "a.py": "." sorts before letters).
SortedPaths == <<P_b, P_a>>

RECURSIVE JoinPath(_)
JoinPath(cs) ==
    IF cs = <<>> THEN ""
    ELSE IF Len(cs) = 1 THEN cs[1]
    ELSE cs[1] \o "/" \o JoinPath(Tail(cs))

RECURSIVE NormPath(_, _)
\* os.path.normpath on the components of an absolute path: ".." drops the
\* component before it (and is dropped itself at the top).
NormPath(done, rest) ==
    IF rest = <<>> THEN done
    ELSE IF Head(rest) = ".."
         THEN NormPath(IF done = <<>> THEN done ELSE SubSeq(done, 1, Len(done) - 1),
                       Tail(rest))
         ELSE NormPath(Append(done, Head(rest)), Tail(rest))

RelPath(p) == JoinPath(p)
AbsPath(p) == "/" \o JoinPath(NormPath(<<>>, Root \o p))

\* api_aider.py:75
ShorterPath(p) == IF Len(AbsPath(p)) < Len(RelPath(p)) THEN AbsPath(p) ELSE RelPath(p)

SortedOf(S) == SelectSeq(SortedPaths, LAMBDA p : p \in S)

MapSeq(f(_), s) == [i \in 1..Len(s) |-> f(s[i])]

Range(s) == {s[i] : i \in 1..Len(s)}

\* api_aider.py:69 with the filter dropped.
EditableFilesNoFilter(fnames, read_only) == SortedOf(fnames)

\* api_aider.py:69
EditableFiles(fnames, read_only) ==
    SelectSeq(SortedOf(fnames), LAMBDA f : f \notin read_only)

\* The snapshot; edit_format is "none" where the code leaves the key out.
format_files_for_input(fnames, read_only, edit_format) ==
    [read_only_files |-> MapSeq(ShorterPath, SortedOf(read_only)),
     editable_files  |-> MapSeq(RelPath, EditableFiles(fnames, read_only)),
     edit_format     |-> edit_format]

FilesStatus(fnames, read_only, edit_format) ==
    [type |-> "files_status",
     files |-> format_files_for_input(fnames, read_only, edit_format)]

EditFormats == {"none", "diff"}

-----------------------------------------------------------------------------
(* Token and cost figures: _parse_tokens_and_costs (api_aider.py:91-114).  *)
(* A report is the text                                                    *)
(*   "Tokens: <sent> sent, <received> received. Cost: $<cost_message>      *)
(*    message, $<cost_session> session."                                   *)
(* kept as its four fields; any other message is plain text.               *)

Digits     == {"0", "1", "2", "3", "4", "5", "6", "7", "8", "9"}
TokenClass == Digits \cup {".", "k", "M"}      \* [\d\.kM]
CostClass  == Digits \cup {"."}                \* [\d\.]

TextMsg(t) == [form |-> "text", text |-> t]
TokenMsg(sent, received, cm, cs) ==
    [form |-> "tokens", sent |-> sent, received |-> received,
     cost_message |-> cm, cost_session |-> cs]

InClass(s, class) == Len(s) >= 1 /\ \A i \in 1..Len(s) : s[i] \in class

\* re.search(pattern, message) (api_aider.py:94-96): on the report text each
\* group has to take its whole field, the literal after it follows at once.
PatternMatches(m) ==
    /\ m.form = "tokens"
    /\ InClass(m.sent, TokenClass)
    /\ InClass(m.received, TokenClass)
    /\ InClass(m.cost_message, CostClass)
    /\ InClass(m.cost_session, CostClass)

\* str.lower() on the characters of a token field.
Lower(s) == [i \in 1..Len(s) |->
                IF s[i] = "K" THEN "k" ELSE IF s[i] = "M" THEN "m" ELSE s[i]]

\* str.replace(c, "")
Without(s, c) == SelectSeq(s, LAMBDA x : x # c)

Count(s, c) == Cardinality({i \in 1..Len(s) : s[i] = c})

\* float(s) accepts the numeral: digits with at most one point, one digit at least.
IsNumeral(s) ==
    /\ \A i \in 1..Len(s) : s[i] \in Digits \cup {"."}
    /\ Count(s, ".") <= 1
    /\ \E i \in 1..Len(s) : s[i] \in Digits

PointAt(s) == IF Count(s, ".") = 0 THEN Len(s) + 1
              ELSE CHOOSE i \in 1..Len(s) : s[i] = "."

IntDigits(s)  == SubSeq(s, 1, PointAt(s) - 1)
FracDigits(s) == SubSeq(s, PointAt(s) + 1, Len(s))

RECURSIVE StripZeros(_)
StripZeros(d) == IF Len(d) > 1 /\ Head(d) = "0" THEN StripZeros(Tail(d)) ELSE d

Zeros(n) == [i \in 1..n |-> "0"]

\* The numeral s times 10^e in decimal arithmetic, the fraction left over cut
\* off: the point moves e places to the right.
ExactScaled(s, e) ==
    LET moved == IntDigits(s) \o SubSeq(FracDigits(s) \o Zeros(e), 1, e)
    IN  StripZeros(IF moved = <<>> THEN <<"0">> ELSE moved)

\* Arbitrary-size naturals for the arithmetic of doubles: sequences of limbs
\* in base 2^12, least significant first.
Limb == 2^12

RECURSIVE MulAdd(_, _, _)
\* a * m + c
MulAdd(a, m, c) ==
    IF a = <<>>
    THEN IF c = 0 THEN <<>> ELSE <<c % Limb>> \o MulAdd(<<>>, m, c \div Limb)
    ELSE LET t == Head(a) * m + c
         IN  <<t % Limb>> \o MulAdd(Tail(a), m, t \div Limb)

RECURSIVE DivSmall(_, _)
\* quotient and remainder of a by m
DivSmall(a, m) ==
    IF a = <<>> THEN [q |-> <<>>, r |-> 0]
    ELSE LET hi == DivSmall(Tail(a), m)
             t  == hi.r * Limb + Head(a)
         IN  [q |-> <<t \div m>> \o hi.q, r |-> t % m]

RECURSIVE Trim(_)
Trim(a) == IF a # <<>> /\ a[Len(a)] = 0 THEN Trim(SubSeq(a, 1, Len(a) - 1)) ELSE a

RECURSIVE SmallBits(_)
SmallBits(n) == IF n = 0 THEN 0 ELSE 1 + SmallBits(n \div 2)

\* The number of binary digits of a.
BitLen(a) ==
    LET t == Trim(a)
    IN  IF t = <<>> THEN 0 ELSE (Len(t) - 1) * 12 + SmallBits(t[Len(t)])

\* a * 2^k
ShiftLeft(a, k) == [i \in 1..(k \div 12) |-> 0] \o MulAdd(a, 2^(k % 12), 0)

\* a \div 2^k, and whether a nonzero remainder was dropped.
ShiftRight(a, k) ==
    LET w    == IF k \div 12 < Len(a) THEN k \div 12 ELSE Len(a)
        d    == DivSmall(SubSeq(a, w + 1, Len(a)), 2^(k % 12))
    IN  [q |-> d.q, sticky |-> d.r # 0 \/ \E i \in 1..w : a[i] # 0]

IsOdd(a) == a # <<>> /\ a[1] % 2 = 1

\* Rounding to the 53 significant bits of a double, ties to even: the
\* number a (with `sticky` when a nonzero fraction was already cut off) is
\* about m * 2^drop.
Round53(a, sticky) ==
    LET L == BitLen(a)
    IN  IF L <= 53 THEN [m |-> a, drop |-> 0]
        ELSE LET s  == ShiftRight(a, L - 54)
                 m0 == DivSmall(s.q, 2).q
                 up == IsOdd(s.q) /\ (sticky \/ s.sticky \/ IsOdd(m0))
             IN  [m |-> IF up THEN MulAdd(m0, 1, 1) ELSE m0, drop |-> L - 53]

DigitChars == <<"0", "1", "2", "3", "4", "5", "6", "7", "8", "9">>
DigitValue(c) == (CHOOSE i \in 1..10 : DigitChars[i] = c) - 1

RECURSIVE BigOfDigits(_, _)
BigOfDigits(ds, acc) ==
    IF ds = <<>> THEN acc
    ELSE BigOfDigits(Tail(ds), MulAdd(acc, 10, DigitValue(Head(ds))))

RECURSIVE DigitsOfBig(_)
DigitsOfBig(a) ==
    IF Trim(a) = <<>> THEN <<>>
    ELSE LET d == DivSmall(Trim(a), 10)
         IN  Append(DigitsOfBig(d.q), DigitChars[d.r + 1])

RECURSIVE DivTens(_, _, _)
\* a \div 10^n, and whether a nonzero remainder was dropped.
DivTens(a, n, sticky) ==
    IF n = 0 THEN [q |-> a, sticky |-> sticky]
    ELSE LET d == DivSmall(a, 10)
         IN  DivTens(d.q, n - 1, sticky \/ d.r # 0)

RECURSIVE MulTens(_, _)
MulTens(a, n) == IF n = 0 THEN a ELSE MulTens(MulAdd(a, 10, 0), n - 1)

\* float(s) for a numeral s: the double nearest to it, as m * 2^e with m an
\* integer below 2^53 + 1.
Float(s) ==
    LET d == Len(FracDigits(s))
        K == 56 + 4 * d
        q == DivTens(ShiftLeft(BigOfDigits(IntDigits(s) \o FracDigits(s), <<>>), K), d, FALSE)
        r == Round53(q.q, q.sticky)
    IN  [m |-> r.m, e |-> r.drop - K]

\* str(int(float(s) * 10^e)) for a numeral s (api_aider.py:102, 104, 105,
\* 108-109): the double of s, the rounded product of the doubles, and the
\* integer part of it.
Scaled(s, e) ==
    LET f == Float(s)
        p == Round53(MulTens(f.m, e), FALSE)
        E == f.e + p.drop
        n == IF E >= 0 THEN ShiftLeft(p.m, E) ELSE ShiftRight(p.m, 0 - E).q
        ds == DigitsOfBig(n)
    IN  IF ds = <<>> THEN <<"0">> ELSE ds

\* ValueError stands for the exception float() raises.
ValueError == <<"ValueError">>

\* parse_tokens (api_aider.py:99-105), then str(int(.)) (108-109).
parse_tokens(token_str) ==
    LET t == Lower(token_str)
        n == IF Count(t, "k") > 0 THEN Without(t, "k")
             ELSE IF Count(t, "m") > 0 THEN Without(t, "m")
             ELSE t
        e == IF Count(t, "k") > 0 THEN 3
             ELSE IF Count(t, "m") > 0 THEN 6
             ELSE 0
    IN  IF IsNumeral(n) THEN Scaled(n, e) ELSE ValueError

-----------------------------------------------------------------------------
(* Events.                                                                 *)

ToolOutputEvent(m) == [type |-> "tool_output", message |-> m]

TokenOutputEvent(m) ==
    [type |-> "tool_output", message |-> m,
     tokens_sent     |-> parse_tokens(m.sent),
     tokens_received |-> parse_tokens(m.received),
     cost_message    |-> m.cost_message,
     cost_session    |-> m.cost_session]

ConfirmEvent(q) ==
    [type |-> "confirm", question |-> q, answer |-> "Yes", subject |-> "none"]

WarningEvent(t) == [type |-> "warning", message |-> t]
ErrorEvent(t)   == [type |-> "error", message |-> t]
PromptEvent(q)  == [type |-> "prompt", question |-> q, subject |-> "none"]
AssistantEvent(t) == [type |-> "assistant", message |-> t]

\* update_files_status without the test of api_aider.py:52.
StatusAlways ==
    <<FilesStatus(rel_fnames, rel_read_only_fnames, current_edit_format)>>

\* update_files_status (api_aider.py:50-64): nothing without a coder.
StatusIfCoder ==
    IF coder
    THEN <<FilesStatus(rel_fnames, rel_read_only_fnames, current_edit_format)>>
    ELSE <<>>

-----------------------------------------------------------------------------
(* The bridge callbacks the tool calls while it runs (pc = "run").          *)

NoValue == "none"

ToolRunning == pc = "run" /\ handler \in {"init", "chat", "agent"}

\* Appending to the buffer; the history keeps what this handler run appended.
Emit(events) ==
    /\ current_response' = current_response \o events
    /\ dispatch_events' = dispatch_events \o events

\* api_aider.py:163 without the test for "to the chat".
IsAddFileQuestionAnyAdd(q) == Contains(CreatePat, q) \/ Contains(AddPat, q)

\* api_aider.py:163: `a or b and c` is `a or (b and c)`.
IsAddFileQuestion(q) ==
    Contains(CreatePat, q) \/ (Contains(AddPat, q) /\ Contains(ToTheChatPat, q))

\* api_aider.py:164 with > for >=.
AtFileLimitOffByOne(n) == n > FileLimit

\* api_aider.py:164
AtFileLimit(n) == n >= FileLimit

\* confirm_ask (api_aider.py:154-171)
ConfirmAsk(q) ==
    /\ UNCHANGED <<loopVars, gitVars>>
    /\ ToolRunning
    /\ asked' = IF q \in AddFileQuestions THEN asked + 1 ELSE asked
    /\ UNCHANGED gets
    /\ IF IsAddFileQuestion(q)
       THEN IF AtFileLimit(files_added_in_current_chat)
            THEN /\ Emit(<<ConfirmEvent(q), WarningEvent(LimitWarning)>>)
                 /\ UNCHANGED files_added_in_current_chat
                 /\ last_ret' = [op |-> "confirm_ask", arg |-> q, value |-> FALSE]
            ELSE /\ Emit(<<ConfirmEvent(q)>>)
                 /\ files_added_in_current_chat' = files_added_in_current_chat + 1
                 /\ last_ret' = [op |-> "confirm_ask", arg |-> q, value |-> TRUE]
       ELSE /\ Emit(<<ConfirmEvent(q)>>)
            /\ UNCHANGED files_added_in_current_chat
            /\ last_ret' = [op |-> "confirm_ask", arg |-> q, value |-> TRUE]
    /\ UNCHANGED <<has_io, coder, input_queue, current_edit_format>>
    /\ UNCHANGED <<toolVars, handler, pc, inbox, result>>

\* The defaults the tool passes to prompt_ask.
PromptDefaults == {"", "y"}

\* prompt_ask (api_aider.py:173-179)
PromptAsk(q, default) ==
    /\ UNCHANGED <<loopVars, gitVars>>
    /\ ToolRunning
    /\ Emit(<<PromptEvent(q)>>)
    /\ last_ret' = [op |-> "prompt_ask", arg |-> [question |-> q, default |-> default],
                    value |-> default]
    /\ UNCHANGED <<has_io, coder, input_queue, current_edit_format,
                   files_added_in_current_chat, asked, gets>>
    /\ UNCHANGED <<toolVars, handler, pc, inbox, result>>

\* api_aider.py:85-87: _parse_tokens_and_costs runs, and on a match calls
\* update_files_status (114), before the tool_output event is appended (87).
OutputEvents(m) ==
    IF PatternMatches(m)
    THEN StatusIfCoder \o <<TokenOutputEvent(m)>>
    ELSE <<ToolOutputEvent(m)>>

\* float() raises inside parse_tokens: the call ends before any append.
OutputRaises(m) ==
    /\ PatternMatches(m)
    /\ ValueError \in {parse_tokens(m.sent), parse_tokens(m.received)}

\* tool_output (api_aider.py:83-89)
ToolOutput(m, log_only) ==
    /\ UNCHANGED <<loopVars, gitVars>>
    /\ ToolRunning
    /\ IF log_only
       THEN /\ UNCHANGED <<current_response, dispatch_events>>
            /\ last_ret' = [op |-> "tool_output", arg |-> m, value |-> NoValue]
       ELSE IF OutputRaises(m)
       THEN /\ UNCHANGED <<current_response, dispatch_events>>
            /\ last_ret' = [op |-> "tool_output", arg |-> m, value |-> ValueError]
       ELSE /\ Emit(OutputEvents(m))
            /\ last_ret' = [op |-> "tool_output", arg |-> m, value |-> NoValue]
    /\ UNCHANGED <<has_io, coder, input_queue, current_edit_format,
                   files_added_in_current_chat, asked, gets>>
    /\ UNCHANGED <<toolVars, handler, pc, inbox, result>>

\* tool_error, tool_warning, assistant_output (api_aider.py:116-122, 146-152);
\* the assistant event's timestamp is left out.
Report(kind, t) ==
    /\ UNCHANGED <<loopVars, gitVars>>
    /\ ToolRunning
    /\ Emit(<<CASE kind = "error"     -> ErrorEvent(t)
                [] kind = "warning"   -> WarningEvent(t)
                [] kind = "assistant" -> AssistantEvent(t)>>)
    /\ last_ret' = [op |-> "tool_" \o kind, arg |-> t, value |-> NoValue]
    /\ UNCHANGED <<has_io, coder, input_queue, current_edit_format,
                   files_added_in_current_chat, asked, gets>>
    /\ UNCHANGED <<toolVars, handler, pc, inbox, result>>

\* api_aider.py:126 resetting to one.
CounterAfterInputOne == 0 + 1

\* api_aider.py:126
CounterAfterInput == 0

\* get_input up to the blocking get (api_aider.py:124-142). The tool passes
\* its own file sets and the edit format it wants.
GetInput(edit_format) ==
    /\ UNCHANGED <<loopVars, gitVars>>
    /\ ToolRunning
    /\ handler # "init"
    /\ files_added_in_current_chat' = CounterAfterInput
    /\ asked' = 0
    /\ gets' = gets + 1
    /\ current_edit_format' = edit_format
    /\ Emit(<<FilesStatus(rel_fnames, rel_read_only_fnames, edit_format)>>)
    /\ pc' = "get"
    /\ last_ret' = [op |-> "get_input", arg |-> edit_format, value |-> NoValue]
    /\ UNCHANGED <<has_io, coder, input_queue>>
    /\ UNCHANGED <<toolVars, handler, inbox, result>>

\* A get that hands over the value put last.
Newest(q) == q[Len(q)]

\* queue.Queue is first in, first out (api_aider.py:3, 44).
Oldest(q) == Head(q)

\* input_queue.get() (api_aider.py:144): returns the oldest value once there is one.
QueueGet ==
    /\ UNCHANGED <<loopVars, gitVars>>
    /\ pc = "get"
    /\ input_queue # <<>>
    /\ input_queue' = Tail(input_queue)
    /\ last_ret' = [op |-> "get_input", arg |-> current_edit_format,
                    value |-> Oldest(input_queue)]
    /\ pc' = "run"
    /\ UNCHANGED <<has_io, coder, current_response, current_edit_format,
                   files_added_in_current_chat>>
    /\ UNCHANGED <<toolVars, handler, inbox, result, histVars>>

\* The tool adds, drops or re-classifies files while it runs.
ToolSetFiles(fnames, read_only) ==
    /\ UNCHANGED <<loopVars, gitVars>>
    /\ pc = "run" /\ handler \in {"chat", "agent"}
    /\ <<fnames, read_only>> # <<rel_fnames, rel_read_only_fnames>>
    /\ rel_fnames' = fnames
    /\ rel_read_only_fnames' = read_only
    /\ UNCHANGED <<bridgeVars, serverVars, histVars>>

-----------------------------------------------------------------------------
(* The HTTP handlers (api_aider.py:191-234). Every handler is an `async     *)
(* def` whose body is synchronous, and uvicorn runs one event loop          *)
(* (server.py:13): a handler starts only when no other handler is running,  *)
(* and a handler blocked in input_queue.get() keeps the loop.               *)

\* The session's first file sets in the specifications that leave them alone.
FirstFiles    == {P_a}
FirstReadOnly == {}

Contents == {"hi", "/add a.py"}

InitReq    == [kind |-> "init", content |-> "-"]
StopReq    == [kind |-> "stop", content |-> "-"]
ChatReq(c) == [kind |-> "chat", content |-> c]
Requests   == {InitReq, StopReq} \cup {ChatReq(c) : c \in Contents}

NoResult == [status |-> "none"]
NoCall   == [op |-> "none", arg |-> NoValue, value |-> NoValue]

\* Handlers starting while another has not returned.
LoopFreeAlways == TRUE

\* No handler is running on the event loop: a handler body is synchronous, so
\* the loop takes the next request only when the running handler has returned.
LoopFree == handler = "idle"

\* A client sends a request.
Arrive(req) ==
    /\ UNCHANGED <<loopVars, gitVars>>
    /\ req \notin inbox
    /\ inbox' = inbox \cup {req}
    /\ UNCHANGED <<bridgeVars, toolVars, handler, pc, result, last_ret, histVars>>

\* initialize_aider_api, line 194: a new session object replaces app.io;
\* then main() starts constructing the coder (line 195).
InitializeAider ==
    /\ UNCHANGED <<loopVars, gitVars>>
    /\ LoopFree
    /\ InitReq \in inbox
    /\ inbox' = inbox \ {InitReq}
    /\ has_io' = TRUE
    /\ coder' = FALSE
    /\ current_response' = <<>>
    /\ input_queue' = <<>>
    /\ current_edit_format' = "none"
    /\ files_added_in_current_chat' = 0
    /\ handler' = "init"
    /\ pc' = "run"
    /\ result' = NoResult
    /\ last_ret' = NoCall
    /\ asked' = 0
    /\ gets' = 0
    /\ dispatch_events' = <<>>
    /\ UNCHANGED toolVars

\* main() returns the coder (api_aider.py:195-196).
InitDone(fnames, read_only) ==
    /\ UNCHANGED <<loopVars, gitVars>>
    /\ handler = "init" /\ pc = "run"
    /\ coder' = TRUE
    /\ rel_fnames' = fnames
    /\ rel_read_only_fnames' = read_only
    /\ handler' = "idle"
    /\ pc' = "-"
    /\ result' = [status |-> "initialized"]
    /\ last_ret' = NoCall
    /\ UNCHANGED <<has_io, current_response, input_queue, current_edit_format,
                   files_added_in_current_chat>>
    /\ UNCHANGED <<inbox, histVars>>

\* main() raises: the handler ends with the exception, app.io.coder stays None.
InitFail ==
    /\ UNCHANGED <<loopVars, gitVars>>
    /\ handler = "init" /\ pc = "run"
    /\ handler' = "idle"
    /\ pc' = "-"
    /\ result' = [status |-> "exception"]
    /\ last_ret' = NoCall
    /\ UNCHANGED <<bridgeVars, toolVars, inbox, histVars>>

\* api_aider.py:200 testing app.io only.
InitializedIoOnly == has_io

\* api_aider.py:200
Initialized == has_io /\ coder

\* api_aider.py:203 left out.
ResponseKept == current_response

\* api_aider.py:203
ResponseCleared == <<>>

\* chat_with_aider_api, lines 203-204: what a dispatch does before the tool runs.
BeginDispatch(content) ==
    /\ current_response' = ResponseCleared
    /\ input_queue' = Append(input_queue, content)
    /\ dispatch_events' = <<>>
    /\ gets' = 0
    /\ pc' = "run"
    /\ UNCHANGED <<has_io, coder, current_edit_format, files_added_in_current_chat,
                   asked>>

\* chat_with_aider_api, lines 200-201
ChatRejected(c) ==
    /\ UNCHANGED <<loopVars, gitVars>>
    /\ LoopFree
    /\ ChatReq(c) \in inbox
    /\ ~Initialized
    /\ inbox' = inbox \ {ChatReq(c)}
    /\ result' = [status |-> "http_400", detail |-> "Aider not initialized"]
    /\ UNCHANGED <<bridgeVars, toolVars, handler, pc, last_ret, histVars>>

\* chat (api_aider.py:225-227) entering chat_with_aider_api
ChatStart(c) ==
    /\ UNCHANGED <<loopVars, gitVars>>
    /\ LoopFree
    /\ ChatReq(c) \in inbox
    /\ Initialized
    /\ inbox' = inbox \ {ChatReq(c)}
    /\ BeginDispatch(c)
    /\ handler' = "chat"
    /\ result' = NoResult
    /\ last_ret' = NoCall
    /\ UNCHANGED toolVars

\* api_aider.py:208-211
SuccessResult == [status |-> "success", responses |-> current_response]

\* api_aider.py:213-217
ErrorResult(e) == [status |-> "error", error |-> e, responses |-> current_response]

\* coder.run returns (api_aider.py:207-211)
ToolReturn ==
    /\ UNCHANGED <<loopVars, gitVars>>
    /\ handler = "chat" /\ pc = "run"
    /\ result' = SuccessResult
    /\ handler' = "idle"
    /\ pc' = "-"
    /\ last_ret' = NoCall
    /\ UNCHANGED <<bridgeVars, toolVars, inbox, histVars>>

\* coder.run raises an Exception (api_aider.py:212-217)
ToolRaise(e) ==
    /\ UNCHANGED <<loopVars, gitVars>>
    /\ handler = "chat" /\ pc = "run"
    /\ result' = ErrorResult(e)
    /\ handler' = "idle"
    /\ pc' = "-"
    /\ last_ret' = NoCall
    /\ UNCHANGED <<bridgeVars, toolVars, inbox, histVars>>

\* stop_aider (api_aider.py:230-234)
StopAider ==
    /\ UNCHANGED <<loopVars, gitVars>>
    /\ LoopFree
    /\ StopReq \in inbox
    /\ inbox' = inbox \ {StopReq}
    /\ input_queue' = IF has_io THEN Append(input_queue, "exit") ELSE input_queue
    /\ result' = [status |-> "stopped"]
    /\ UNCHANGED <<has_io, coder, current_response, current_edit_format,
                   files_added_in_current_chat>>
    /\ UNCHANGED <<toolVars, handler, pc, last_ret, histVars>>

-----------------------------------------------------------------------------
(* The agent loop (api_helpers.py:60-110). An LLM reply is a sequence of    *)
(* tokens: "{" and "}" are braces, a field token is one key with its value  *)
(* and its separator, "prose" is text that is not JSON.                     *)

TypeToks    == {"T_aider", "T_perplexity", "T_other"}
ContentToks == {"C_quit", "C_cmd"}
FieldToks   == TypeToks \cup ContentToks

R_quit   == <<"{", "T_aider", "C_quit", "}">>
R_cmd    == <<"{", "T_aider", "C_cmd", "}">>
R_perp   == <<"{", "T_perplexity", "C_cmd", "}">>
R_other  == <<"{", "T_other", "C_cmd", "}">>
R_prose  == <<"prose">>
R_notype == <<"{", "C_cmd", "}">>
R_tagged == <<"prose", "{", "T_aider", "C_quit", "}", "prose">>
R_two    == <<"{", "T_aider", "C_cmd", "}", "prose", "{", "T_aider", "C_quit", "}">>

Replies == {R_quit, R_cmd, R_perp, R_other, R_prose, R_notype, R_tagged, R_two}

Positions(text, tok) == {i \in 1..Len(text) : text[i] = tok}

Min(S) == CHOOSE x \in S : \A y \in S : x <= y
Max(S) == CHOOSE x \in S : \A y \in S : x >= y

\* re.search(r'({.*})', text, re.DOTALL), api_helpers.py:63: the match runs
\* from the first "{" to the last "}" after it; <<>> when there is none.
JsonMatch(text) ==
    LET opens  == Positions(text, "{")
        closes == Positions(text, "}")
    IN  IF opens # {} /\ closes # {} /\ Min(opens) < Max(closes)
        THEN SubSeq(text, Min(opens), Max(closes))
        ELSE <<>>

\* json.loads succeeds on one object: braces around field tokens only.
IsJsonObject(text) ==
    /\ Len(text) >= 2
    /\ text[1] = "{"
    /\ text[Len(text)] = "}"
    /\ \A i \in 2..(Len(text) - 1) : text[i] \in FieldToks

Absent == "absent"

\* The dict json.loads returns: a later key of the same name wins.
LastOf(text, toks) ==
    LET at == {i \in 1..Len(text) : text[i] \in toks}
    IN  IF at = {} THEN Absent ELSE text[Max(at)]

JsonLoads(text) == [type |-> LastOf(text, TypeToks), content |-> LastOf(text, ContentToks)]

\* The ValueError of api_helpers.py:74.
NoJson == [raised |-> "ValueError"]

\* extract_json_from_response (api_helpers.py:60-74)
extract_json_from_response(text) ==
    IF JsonMatch(text) # <<>> /\ IsJsonObject(JsonMatch(text))
    THEN JsonLoads(JsonMatch(text))
    ELSE IF IsJsonObject(text)
    THEN JsonLoads(text)
    ELSE NoJson

\* range(5), api_helpers.py:83, with one more round.
LoopCapSix == 5 + 1

\* range(5), api_helpers.py:83
LoopCap == 5

\* The assistant turn holding the extracted JSON text instead of the reply.
AssistantTurnExtracted(r) == [role |-> "assistant", content |-> JsonMatch(r)]

SystemTurn       == [role |-> "system", content |-> <<"prompt">>]
AssistantTurn(r) == [role |-> "assistant", content |-> r]
UserTurn(c)      == [role |-> "user", content |-> c]

\* json.dumps of the events of a dispatch result only.
JsonDumpsResponsesOnly(res) == <<"json", res.responses>>

\* json.dumps of a dispatch result (api_helpers.py:106) and str() of a
\* content (api_helpers.py:108), as texts.
JsonDumps(res) == <<"json", res>>
Str(c)         == <<c>>

Returned(msgs) == [kind |-> "list", items |-> msgs]
ReturnedNone   == [kind |-> "None"]
Running        == [kind |-> "running"]
Raised(e)      == [kind |-> "raised", error |-> e]

\* conversation() is entered (api_helpers.py:78-81).
LoopStart ==
    /\ messages' = <<SystemTurn>>
    /\ loop_pc' = "call"
    /\ iter' = 0
    /\ conv_ret' = Running
    /\ llm_calls' = 0
    /\ dispatches' = 0

\* The end of one round of the for loop: the next round, or line 110.
NextRound(msgs) ==
    /\ messages' = msgs
    /\ iter' = iter + 1
    /\ IF iter + 1 < LoopCap
       THEN loop_pc' = "call" /\ conv_ret' = Running
       ELSE loop_pc' = "done" /\ conv_ret' = Returned(msgs)

\* An exception leaves conversation().
LoopRaises(msgs, e) ==
    /\ messages' = msgs
    /\ loop_pc' = "raised"
    /\ conv_ret' = Raised(e)
    /\ UNCHANGED iter

\* One round up to its dispatch (api_helpers.py:84-108): the LLM call
\* returns reply r, the assistant turn is appended, the reply is parsed and
\* routed.
LLMReply(r) ==
    LET msgs == Append(messages, AssistantTurn(r))
        js   == extract_json_from_response(r)
    IN  /\ handler = "agent" /\ loop_pc = "call"
        /\ llm_calls' = llm_calls + 1
        /\ IF js = NoJson
           THEN /\ NextRound(msgs)
                /\ UNCHANGED <<bridgeVars, pc, result, last_ret, histVars, dispatches>>
           ELSE IF js.type = Absent \/ (js.type \in {"T_aider", "T_perplexity"} /\ js.content = Absent)
           THEN /\ LoopRaises(msgs, "KeyError")
                /\ UNCHANGED <<bridgeVars, pc, result, last_ret, histVars, dispatches>>
           ELSE IF js.type = "T_aider" /\ js.content = "C_quit"
           THEN /\ messages' = msgs
                /\ loop_pc' = "done"
                /\ conv_ret' = ReturnedNone
                /\ UNCHANGED <<iter, bridgeVars, pc, result, last_ret, histVars, dispatches>>
           ELSE IF js.type = "T_aider"
           THEN /\ dispatches' = dispatches + 1
                /\ IF Initialized
                   THEN /\ BeginDispatch(js.content)
                        /\ messages' = msgs
                        /\ loop_pc' = "dispatch"
                        /\ result' = NoResult
                        /\ last_ret' = NoCall
                        /\ UNCHANGED <<iter, conv_ret>>
                   ELSE /\ LoopRaises(msgs, "HTTPException")
                        /\ UNCHANGED <<bridgeVars, pc, result, last_ret, histVars>>
           ELSE IF js.type = "T_perplexity"
           THEN /\ NextRound(Append(msgs, UserTurn(Str(js.content))))
                /\ UNCHANGED <<bridgeVars, pc, result, last_ret, histVars, dispatches>>
           ELSE /\ NextRound(msgs)
                /\ UNCHANGED <<bridgeVars, pc, result, last_ret, histVars, dispatches>>
        /\ UNCHANGED <<toolVars, handler, inbox, gitVars>>

\* The chat-completion call raises (api_helpers.py:85-89).
LLMFail ==
    /\ handler = "agent" /\ loop_pc = "call"
    /\ llm_calls' = llm_calls + 1
    /\ LoopRaises(messages, "APIError")
    /\ UNCHANGED <<bridgeVars, toolVars, serverVars, histVars, dispatches, gitVars>>

\* The dispatch of a round returns its result (api_aider.py:207-217) and the
\* round appends it as a user turn (api_helpers.py:105-106).
DispatchEnds(res) ==
    /\ handler = "agent" /\ loop_pc = "dispatch" /\ pc = "run"
    /\ result' = res
    /\ pc' = "-"
    /\ last_ret' = NoCall
    /\ NextRound(Append(messages, UserTurn(JsonDumps(res))))
    /\ UNCHANGED <<bridgeVars, toolVars, handler, inbox, histVars,
                   llm_calls, dispatches, gitVars>>

DispatchReturn == DispatchEnds(SuccessResult)

DispatchRaise(e) == DispatchEnds(ErrorResult(e))

-----------------------------------------------------------------------------
(* Repository provisioning: setup_repository of api_agent.py:34-102, which  *)
(* always starts from an empty directory, and of api.py:248-326, which      *)
(* reuses a repository it finds. Git commands fail when git would fail on   *)
(* the modelled state, or because the environment (network, host) fails.    *)

NoBranch == "-"
NoStart  == [time |-> 0, reuse |-> FALSE, heads |-> {}, at |-> 0]

\* api_agent.py:193 and api.py:420, api_agent.py:235 and api.py:458
Dirs == {"/app", "./temp"}

AbsentDir == [dir_exists |-> FALSE, git_dir |-> FALSE, remotes |-> {}, tracking |-> {},
              heads |-> {}, head |-> NoBranch]

\* The directory the repository variables describe.
WorkDir == [dir_exists |-> dir_exists, git_dir |-> git_dir, remotes |-> remotes,
            tracking |-> tracking, heads |-> heads, head |-> head]

\* The directory dir as a request finds it.
Found(dir) == IF dir = app_dir THEN WorkDir ELSE other_dir

\* setup_repository is called on dir (api_agent.py:205, 247; api.py:432, 470):
\* the repository variables describe dir from here on.
Enter(dir) ==
    /\ app_dir' = dir
    /\ other_dir' = IF dir = app_dir THEN other_dir ELSE WorkDir
    /\ git_dir' = Found(dir).git_dir
    /\ remotes' = Found(dir).remotes
    /\ tracking' = Found(dir).tracking
    /\ heads' = Found(dir).heads
    /\ head' = Found(dir).head

Names(m)     == {p[1] : p \in m}
At(m, n)     == (CHOOSE p \in m : p[1] = n)[2]
Put(m, n, c) == {p \in m : p[1] # n} \cup {<<n, c>>}

\* generate_branch_name (api_agent.py:21-24, api.py:235-238): the name
\* carries the time to the second.
generate_branch_name(now) == "cool-agent-" \o ToString(now)

\* The commit HEAD resolves to, 0 when HEAD is unborn.
HeadCommit == IF head \in Names(heads) THEN At(heads, head) ELSE 0

NewCommit == Cardinality(parent) + 1

Do(op) == ops' = Append(ops, op)

HttpError(code, detail, cause) ==
    [status |-> "http_error", code |-> code, detail |-> detail, cause |-> cause]

\* The request ends: its response is res.
AgentEnds(res) ==
    /\ agent_pc' = "done"
    /\ agent_result' = res
    /\ handler' = "idle"
    /\ runs' = Append(runs, [time |-> started.time, branch |-> branch,
                             reuse |-> started.reuse, dir |-> app_dir,
                             ok |-> res.status = "success"])

\* api_agent.py:220-221 with the GitCommandError clause left out.
GitFailsAsOther(cause) == AgentEnds(HttpError(500, "Operation failed", cause))

\* api_agent.py:220-221, 265-266; api.py:440-441, 491-492
GitFails(cause) == AgentEnds(HttpError(500, "Git operation failed", cause))

\* api_agent.py:222-223, 267-268; api.py:442-443, 493-494
OtherFails(cause) == AgentEnds(HttpError(500, "Operation failed", cause))

AgentIdle == handler = "idle" /\ agent_pc \in {"idle", "done"}

\* What a request leaves alone while it stays outside the bridge and the loop.
SessionAside == UNCHANGED <<bridgeVars, toolVars, pc, inbox, result, last_ret, histVars>>

BridgeAside == SessionAside /\ UNCHANGED loopVars

\* conversation() is left: its transcript is a local and its return value is
\* dropped (api_agent.py:210).
LoopLeft ==
    /\ messages' = <<>>
    /\ loop_pc' = "off"
    /\ iter' = 0
    /\ conv_ret' = [kind |-> "running"]
    /\ llm_calls' = 0
    /\ dispatches' = 0

\* The REPO_URL test placed after the branch name is generated
\* (api_agent.py:199 before 187-191).
AgentNoRepoUrlAfterBranch ==
    /\ AgentIdle
    /\ ~env.repo_url
    /\ branch' = generate_branch_name(clock)
    /\ agent_pc' = "done"
    /\ agent_result' = HttpError(400, "Environment variable REPO_URL must be set", "-")
    /\ ops' = <<>>
    /\ UNCHANGED <<dirVars, env, clock, repoVars, started, runs, handler>>
    /\ BridgeAside

\* The missing REPO_URL (api_agent.py:187-191, 229-233; api.py:414-418):
\* raised outside the try, nothing else is done.
AgentNoRepoUrl ==
    /\ AgentIdle
    /\ ~env.repo_url
    /\ agent_pc' = "done"
    /\ agent_result' = HttpError(400, "Environment variable REPO_URL must be set", "-")
    /\ ops' = <<>>
    /\ UNCHANGED <<dirVars, env, clock, branch, repoVars, started, runs, handler>>
    /\ BridgeAside

\* The request begins: agent_instruction on /app (api_agent.py:193-205) or
\* agent_instruction_test on ./temp (api_agent.py:235-247). The branch name
\* is generated and setup_repository is entered.
AgentStart(dir) ==
    /\ AgentIdle
    /\ env.repo_url
    /\ handler' = "agent"
    /\ branch' = generate_branch_name(clock)
    /\ agent_pc' = "prepare"
    /\ agent_result' = NoResult
    /\ ops' = <<>>
    /\ Enter(dir)
    /\ dir_exists' = Found(dir).dir_exists
    /\ started' = [time |-> clock, reuse |-> FALSE, heads |-> heads', at |-> HeadCommit']
    /\ UNCHANGED <<env, clock, parent, host_refs, runs>>
    /\ BridgeAside

PrepareOutcomes == {"ok", "rmtree_fails", "rmtree_busy", "mkdir_fails"}

\* api_agent.py:38-46: an existing directory is removed, then the directory
\* is created. rmtree fails before it removed anything, or on the emptied
\* directory itself; mkdir fails with the directory gone. Each failure is an
\* OSError raised outside the try of setup_repository.
PrepareDir(outcome) ==
    /\ agent_pc = "prepare"
    /\ outcome \in {"rmtree_fails", "rmtree_busy"} => dir_exists
    /\ Do(IF dir_exists THEN "rmtree" ELSE "mkdir")
    /\ IF outcome = "rmtree_fails"
       THEN UNCHANGED <<dir_exists, git_dir, remotes, tracking, heads, head>>
       ELSE /\ dir_exists' = (outcome \in {"ok", "rmtree_busy"})
            /\ git_dir' = FALSE
            /\ remotes' = {}
            /\ tracking' = {}
            /\ heads' = {}
            /\ head' = NoBranch
    /\ IF outcome = "ok"
       THEN /\ agent_pc' = "init"
            /\ UNCHANGED <<agent_result, handler, runs>>
       ELSE OtherFails("OSError")
    /\ UNCHANGED <<dirVars, env, clock, branch, parent, host_refs, started>>
    /\ BridgeAside

\* Repo.init and create_remote (api_agent.py:51-53, api.py:260-262)
GitInit(ok) ==
    /\ agent_pc = "init"
    /\ IF ok
       THEN /\ ops' = ops \o <<"init", "create_remote">>
            /\ git_dir' = TRUE
            /\ remotes' = {"origin"}
            /\ agent_pc' = "fetch"
            /\ UNCHANGED <<agent_result, handler, runs>>
       ELSE /\ Do("init")
            /\ GitFails("init")
            /\ UNCHANGED <<git_dir, remotes>>
    /\ UNCHANGED <<dirVars, env, clock, branch, dir_exists, tracking, heads, head, parent,
                   host_refs, started>>
    /\ BridgeAside

\* Repo.init succeeds and create_remote raises (api_agent.py:53, api.py:262):
\* the metadata directory stays, without a remote.
CreateRemoteFails ==
    /\ agent_pc = "init"
    /\ ops' = ops \o <<"init", "create_remote">>
    /\ git_dir' = TRUE
    /\ GitFails("create_remote")
    /\ UNCHANGED <<dirVars, env, clock, branch, dir_exists, remotes, tracking, heads, head,
                   parent, host_refs, started>>
    /\ BridgeAside

\* origin.fetch() (api_agent.py:55, api.py:264)
Fetch(ok) ==
    /\ agent_pc = "fetch"
    /\ Do("fetch")
    /\ IF ok
       THEN /\ tracking' = {p \in tracking : p[1] \notin Names(host_refs)} \cup host_refs
            /\ agent_pc' = "checkout_main"
            /\ UNCHANGED <<agent_result, handler, runs>>
       ELSE /\ GitFails("fetch")
            /\ UNCHANGED tracking
    /\ UNCHANGED <<dirVars, env, clock, branch, dir_exists, git_dir, remotes, heads, head,
                   parent, host_refs, started>>
    /\ BridgeAside

\* git checkout origin/<base> -b <branch> succeeds when the tracking ref
\* exists and the branch does not.
CanCheckoutFrom(base) == base \in Names(tracking) /\ branch \notin Names(heads)

\* api_agent.py:62-64, api.py:271-273
CheckoutMain ==
    /\ agent_pc = "checkout_main"
    /\ Do("checkout_main")
    /\ IF CanCheckoutFrom("main")
       THEN /\ heads' = Put(heads, branch, At(tracking, "main"))
            /\ head' = branch
            /\ agent_pc' = "commit"
       ELSE /\ agent_pc' = "checkout_master"
            /\ UNCHANGED <<heads, head>>
    /\ UNCHANGED <<dirVars, env, clock, branch, agent_result, dir_exists, git_dir, remotes,
                   tracking, parent, host_refs, started, runs, handler>>
    /\ BridgeAside

\* api_agent.py:65-68, api.py:274-277: the second attempt, inside the except
\* clause of the first; its GitCommandError leaves setup_repository.
CheckoutMaster ==
    /\ agent_pc = "checkout_master"
    /\ Do("checkout_master")
    /\ IF CanCheckoutFrom("master")
       THEN /\ heads' = Put(heads, branch, At(tracking, "master"))
            /\ head' = branch
            /\ agent_pc' = "commit"
            /\ UNCHANGED <<agent_result, handler, runs>>
       ELSE /\ GitFails("checkout_master")
            /\ UNCHANGED <<heads, head>>
    /\ UNCHANGED <<dirVars, env, clock, branch, dir_exists, git_dir, remotes, tracking,
                   parent, host_refs, started>>
    /\ BridgeAside

\* api_agent.py:74-78, api.py:297-301: uncommitted changes are committed on
\* the checked-out branch; the commit may fail.
CommitIfDirty(dirty, ok) ==
    /\ agent_pc = "commit"
    /\ IF ~dirty
       THEN /\ agent_pc' = "push"
            /\ UNCHANGED <<ops, heads, parent, agent_result, handler, runs>>
       ELSE /\ Do("commit")
            /\ IF ok
               THEN /\ parent' = parent \cup {<<NewCommit, HeadCommit>>}
                    /\ heads' = Put(heads, head, NewCommit)
                    /\ agent_pc' = "push"
                    /\ UNCHANGED <<agent_result, handler, runs>>
               ELSE /\ GitFails("commit")
                    /\ UNCHANGED <<heads, parent>>
    /\ UNCHANGED <<dirVars, env, clock, branch, dir_exists, git_dir, remotes, tracking, head,
                   host_refs, started>>
    /\ BridgeAside

\* git push --set-upstream origin <branch> (api_agent.py:84, api.py:307)
Push(ok) ==
    /\ agent_pc = "push"
    /\ Do("push")
    /\ IF ok
       THEN /\ host_refs' = Put(host_refs, branch, At(heads, branch))
            /\ tracking' = Put(tracking, branch, At(heads, branch))
            /\ agent_pc' = "verify"
            /\ UNCHANGED <<agent_result, handler, runs>>
       ELSE /\ GitFails("push")
            /\ UNCHANGED <<host_refs, tracking>>
    /\ UNCHANGED <<dirVars, env, clock, branch, dir_exists, git_dir, remotes, heads, head,
                   parent, started>>
    /\ BridgeAside

\* The fetch after the push (api_agent.py:88, api.py:311), inside the try
\* whose except clause re-raises (api_agent.py:92-96); then the return.
VerifyFetch(ok) ==
    /\ agent_pc = "verify"
    /\ Do("verify_fetch")
    /\ IF ok
       THEN /\ tracking' = {p \in tracking : p[1] \notin Names(host_refs)} \cup host_refs
            /\ agent_pc' = "provisioned"
            /\ UNCHANGED <<agent_result, handler, runs>>
       ELSE /\ GitFails("verify_fetch")
            /\ UNCHANGED tracking
    /\ UNCHANGED <<dirVars, env, clock, branch, dir_exists, git_dir, remotes, heads, head,
                   parent, host_refs, started>>
    /\ BridgeAside

(* The agent endpoint of api_agent.py after provisioning: the session, the  *)
(* loop, the final push and the pull request (api_agent.py:105-181,         *)
(* 207-218).                                                                *)

\* api_agent.py:218, api.py:436
ReadyResult == [status |-> "success", message |-> "Repository ready on branch"]

\* What main() reports through io.tool_output while it constructs the coder
\* (api_aider.py:195, 83-89): nothing, or a plain message.
MainReports == {<<>>, <<ToolOutputEvent(TextMsg(<<"o", "k">>))>>}

\* initialize_aider_api (api_aider.py:191-196) called at api_agent.py:209,
\* 251, and conversation() entered at api_agent.py:210, 252. The new session
\* object receives what main() reports; when main() raises, it stays in
\* place without a coder.
AgentInitSession(ok, reports) ==
    /\ agent_pc = "provisioned"
    /\ Do("init_session")
    /\ has_io' = TRUE
    /\ coder' = ok
    /\ current_response' = reports
    /\ input_queue' = <<>>
    /\ current_edit_format' = "none"
    /\ files_added_in_current_chat' = 0
    /\ asked' = 0
    /\ gets' = 0
    /\ dispatch_events' = reports
    /\ IF ok
       THEN /\ rel_fnames' = FirstFiles
            /\ rel_read_only_fnames' = FirstReadOnly
            /\ agent_pc' = "conversation"
            /\ LoopStart
            /\ UNCHANGED <<agent_result, handler, runs>>
       ELSE /\ OtherFails("main")
            /\ UNCHANGED <<toolVars, loopVars>>
    /\ UNCHANGED <<dirVars, env, clock, branch, repoVars, started>>
    /\ UNCHANGED <<pc, inbox, result, last_ret>>

\* An exception left conversation(): api_agent.py:222-223.
LoopRaised ==
    /\ agent_pc = "conversation" /\ loop_pc = "raised"
    /\ OtherFails(conv_ret.error)
    /\ LoopLeft
    /\ UNCHANGED <<dirVars, env, clock, branch, repoVars, ops, started>>
    /\ SessionAside

\* The push not waiting for conversation() to return.
ConversationEntered == loop_pc # "off"

\* api_agent.py:210-212: the statement after the call runs when it returned.
ConversationReturned == loop_pc = "done"

\* conversation() returned; the branch is pushed again (api_agent.py:212)
\* and, with a token and a GitHub URL, the pull request is begun (215-218).
FinalPush(ok) ==
    /\ agent_pc = "conversation" /\ ConversationReturned
    /\ Do("push")
    /\ IF ~ok
       THEN /\ GitFails("push")
            /\ UNCHANGED <<host_refs, tracking>>
       ELSE /\ host_refs' = Put(host_refs, branch, At(heads, branch))
            /\ tracking' = Put(tracking, branch, At(heads, branch))
            /\ IF env.token /\ env.github
               THEN /\ agent_pc' = "pr_verify"
                    /\ UNCHANGED <<agent_result, handler, runs>>
               ELSE AgentEnds(ReadyResult)
    /\ LoopLeft
    /\ UNCHANGED <<dirVars, env, clock, branch, dir_exists, git_dir, remotes, heads, head,
                   parent, started>>
    /\ SessionAside

\* The URL is split into owner and name (api_agent.py:116-117, api.py:340-341):
\* without a "/" after the last "github.com/" the second part is missing and
\* the IndexError ends the request (api_agent.py:222-223, api.py:442-443)
\* before any REST call.
PRSplitFails ==
    /\ agent_pc = "pr_verify"
    /\ ~env.owner
    /\ OtherFails("IndexError")
    /\ UNCHANGED <<dirVars, env, clock, branch, repoVars, ops, started>>
    /\ BridgeAside

VerifyOutcomes == {"200", "404", "RequestException"}

\* api_agent.py:127 with the status left untested.
LookupFoundAny(outcome) == TRUE

\* api_agent.py:127
LookupFound(outcome) == outcome = "200"

\* The GET that verifies the branch (api_agent.py:126-132, api.py:348-354),
\* sent once the URL is split. It stands before
\* the try: its RequestException reaches the except clause of
\* agent_instruction (api_agent.py:222-223).
PRVerify(outcome) ==
    /\ agent_pc = "pr_verify"
    /\ env.owner
    /\ ops' = ops \o <<"GET", "lookup_" \o outcome>>
    /\ IF outcome = "RequestException"
       THEN OtherFails("RequestException")
       ELSE IF LookupFound(outcome)
       THEN /\ agent_pc' = "pr_post_main"
            /\ UNCHANGED <<agent_result, handler, runs>>
       ELSE AgentEnds([status |-> "error",
                       message |-> "Branch does not exist or is not accessible"])
    /\ UNCHANGED <<dirVars, env, clock, branch, repoVars, started>>
    /\ BridgeAside

\* What the host answers to a creation request: the status code, the text of
\* the "errors" list of the body (api_agent.py:149, 152), and why the host
\* answered so. A body without "errors" gives the text of the empty list.
BasePat == <<"b", "a", "s", "e">>

ErrInvalidBase == <<"f", "i", "e", "l", "d", ":", "b", "a", "s", "e">>
ErrInvalidHead == <<"f", "i", "e", "l", "d", ":", "h", "e", "a", "d">>
ErrExists      == <<"e", "x", "i", "s", "t", "s", ":", "d", "a", "t", "a", "b", "a", "s", "e">>
NoErrors       == <<"[", "]">>

RespCreated      == [code |-> 201, errors |-> NoErrors, reason |-> "created"]
RespInvalidBase  == [code |-> 422, errors |-> ErrInvalidBase, reason |-> "invalid_base"]
RespInvalidHead  == [code |-> 422, errors |-> ErrInvalidHead, reason |-> "invalid_head"]
RespExists       == [code |-> 422, errors |-> ErrExists, reason |-> "already_exists"]
RespUnauthorized == [code |-> 401, errors |-> NoErrors, reason |-> "unauthorized"]
RespTransport    == [code |-> 0, errors |-> NoErrors, reason |-> "transport"]

PostOutcomes == {RespCreated, RespInvalidBase, RespInvalidHead, RespExists,
                 RespUnauthorized, RespTransport}

\* api_agent.py:152
NeedsRetry(resp) == resp.code # 201 /\ Contains(BasePat, resp.errors)

\* The log entry of a host's answer.
Reply(resp) == "reply_" \o resp.reason

PRCreated == [status |-> "success", message |-> "Repository ready on branch",
              pull_request_url |-> "html_url"]

PRRefused == [status |-> "error", message |-> "Repository ready on branch",
              pull_request_error |-> "Failed to create PR"]

\* api_agent.py:176-181 raises an HTTPException inside the try of
\* agent_instruction, whose `except Exception` clause wraps it (222-223).
PRTransportFails ==
    OtherFails("Failed to create PR due to request error")

\* The POST against base main (api_agent.py:147-149) and its result when no
\* retry follows (157-174).
PRPostMain(outcome) ==
    /\ agent_pc = "pr_post_main"
    /\ ops' = ops \o <<"POST_main", Reply(outcome)>>
    /\ IF outcome = RespTransport THEN PRTransportFails
       ELSE IF NeedsRetry(outcome)
       THEN /\ agent_pc' = "pr_post_master"
            /\ UNCHANGED <<agent_result, handler, runs>>
       ELSE IF outcome.code = 201 THEN AgentEnds(PRCreated)
       ELSE AgentEnds(PRRefused)
    /\ UNCHANGED <<dirVars, env, clock, branch, repoVars, started>>
    /\ BridgeAside

\* The retry against base master (api_agent.py:152-155) and its result.
PRPostMaster(outcome) ==
    /\ agent_pc = "pr_post_master"
    /\ ops' = ops \o <<"POST_master", Reply(outcome)>>
    /\ IF outcome = RespTransport THEN PRTransportFails
       ELSE IF outcome.code = 201 THEN AgentEnds(PRCreated)
       ELSE AgentEnds(PRRefused)
    /\ UNCHANGED <<dirVars, env, clock, branch, repoVars, started>>
    /\ BridgeAside

(* The provisioner of api.py keeps a repository it finds.                   *)

\* The reuse path taken only for a repository with a remote and a commit.
RepoFoundUsable == git_dir /\ "origin" \in remotes /\ HeadCommit # 0

\* api.py:258
RepoFound == git_dir

\* The environments. REPO_URL and GITHUB_TOKEN are each unset, set to the
\* empty text (url_blank, token_blank) or set to a text (repo_url, token);
\* os.getenv of an empty text is falsy (api.py:414, 435, 452). The URL is on
\* github.com or not, with or without an owner and a name after it.
Envs == {e \in [repo_url : BOOLEAN, token : BOOLEAN, github : BOOLEAN, owner : BOOLEAN,
                url_blank : BOOLEAN, token_blank : BOOLEAN] :
            /\ ~e.github => e.owner
            /\ ~e.repo_url => e.github /\ e.owner
            /\ e.repo_url => ~e.url_blank
            /\ e.token => ~e.token_blank}

\* REPO_URL set to a GitHub URL with owner and name, GITHUB_TOKEN unset.
EnvUrlOnly == [repo_url |-> TRUE, token |-> FALSE, github |-> TRUE, owner |-> TRUE,
               url_blank |-> FALSE, token_blank |-> FALSE]

\* What a .env file holds: for each of the two variables no line, a line
\* with an empty value or a line with a value.
DotEnvs == Envs

\* No .env file, or one without the two variables.
NoDotEnv == [repo_url |-> FALSE, token |-> FALSE, github |-> TRUE, owner |-> TRUE,
             url_blank |-> FALSE, token_blank |-> FALSE]

\* load_dotenv() (api.py:448-450) does not override: a variable the process
\* has already, an empty one included, is kept; any other variable takes
\* the value of the file, an empty one included.
LoadDotenv(f) ==
    LET u == IF env.repo_url \/ env.url_blank THEN env ELSE f
        t == IF env.token \/ env.token_blank THEN env ELSE f
    IN  [repo_url |-> u.repo_url, url_blank |-> u.url_blank,
         github |-> u.github, owner |-> u.owner,
         token |-> t.token, token_blank |-> t.token_blank]

\* agent_instruction_test of api.py without REPO_URL in the process or in the
\* file (api.py:448-456): the file is loaded, then the request is refused.
TestNoRepoUrl(f) ==
    /\ AgentIdle
    /\ ~LoadDotenv(f).repo_url
    /\ env' = LoadDotenv(f)
    /\ agent_pc' = "done"
    /\ agent_result' = HttpError(400, "Environment variable REPO_URL must be set", "-")
    /\ ops' = <<>>
    /\ UNCHANGED <<dirVars, clock, branch, repoVars, started, runs, handler>>
    /\ BridgeAside

\* api.py agent_instruction on /app (420-432) or agent_instruction_test on
\* ./temp (458-470), up to setup_repository's test of .git (253-258): the
\* branch name is generated, the directory is created when missing, and the
\* fresh or the reuse path is taken. A failure of mkdir (255) is an OSError
\* that ends the request (442-443, 493-494). agent_instruction_test loads
\* the .env file f first (448-450).
RepoStart(dir, ok, f) ==
    /\ AgentIdle
    /\ dir = "/app" => f = NoDotEnv
    /\ LoadDotenv(f).repo_url
    /\ env' = LoadDotenv(f)
    /\ ~ok => ~Found(dir).dir_exists
    /\ branch' = generate_branch_name(clock)
    /\ ops' = IF Found(dir).dir_exists THEN <<>> ELSE <<"mkdir">>
    /\ Enter(dir)
    /\ started' = [time |-> clock, reuse |-> git_dir', heads |-> heads', at |-> HeadCommit']
    /\ IF ok
       THEN /\ dir_exists' = TRUE
            /\ handler' = "agent"
            /\ agent_result' = NoResult
            /\ agent_pc' = IF RepoFound' THEN "reuse_fetch" ELSE "init"
            /\ UNCHANGED runs
       ELSE /\ dir_exists' = FALSE
            /\ handler' = "idle"
            /\ agent_result' = HttpError(500, "Operation failed", "OSError")
            /\ agent_pc' = "done"
            /\ runs' = Append(runs, [time |-> clock, branch |-> branch', reuse |-> FALSE,
                                     dir |-> dir, ok |-> FALSE])
    /\ UNCHANGED <<clock, parent, host_refs>>
    /\ BridgeAside

\* git.Repo(app_dir) and repo.remotes.origin.fetch() (api.py:280-282):
\* without a remote named origin the attribute lookup raises before any
\* command is issued.
ReuseFetch(ok) ==
    /\ agent_pc = "reuse_fetch"
    /\ IF "origin" \notin remotes
       THEN /\ OtherFails("AttributeError")
            /\ UNCHANGED <<ops, tracking>>
       ELSE IF ok
       THEN /\ Do("fetch")
            /\ tracking' = {p \in tracking : p[1] \notin Names(host_refs)} \cup host_refs
            /\ agent_pc' = "create_head"
            /\ UNCHANGED <<agent_result, handler, runs>>
       ELSE /\ Do("fetch")
            /\ GitFails("fetch")
            /\ UNCHANGED tracking
    /\ UNCHANGED <<dirVars, env, clock, branch, dir_exists, git_dir, remotes, heads, head,
                   parent, host_refs, started>>
    /\ BridgeAside

\* repo.create_head(branch) and new_branch.checkout() (api.py:291-292). The
\* head is created at the commit of HEAD: with an unborn HEAD the revision
\* does not resolve; a head of that name at another commit is refused; a head
\* of that name at the same commit is returned as it is.
CreateHead ==
    /\ agent_pc = "create_head"
    /\ Do("create_head")
    /\ IF HeadCommit = 0
       THEN /\ OtherFails("BadName")
            /\ UNCHANGED <<heads, head>>
       ELSE IF branch \in Names(heads) /\ At(heads, branch) # HeadCommit
       THEN /\ OtherFails("OSError")
            /\ UNCHANGED <<heads, head>>
       ELSE /\ heads' = Put(heads, branch, HeadCommit)
            /\ head' = branch
            /\ agent_pc' = "commit"
            /\ UNCHANGED <<agent_result, handler, runs>>
    /\ UNCHANGED <<dirVars, env, clock, branch, dir_exists, git_dir, remotes, tracking,
                   parent, host_refs, started>>
    /\ BridgeAside

\* agent_instruction_test of api.py appends a line to README.md and commits
\* it on the new branch (api.py:473-481); the write may fail.
TestCommit(ok) ==
    /\ agent_pc = "provisioned" /\ app_dir = "./temp"
    /\ IF ok
       THEN /\ Do("index_commit")
            /\ parent' = parent \cup {<<NewCommit, HeadCommit>>}
            /\ heads' = Put(heads, head, NewCommit)
            /\ agent_pc' = "test_push"
            /\ UNCHANGED <<agent_result, handler, runs>>
       ELSE /\ OtherFails("OSError")
            /\ UNCHANGED <<ops, heads, parent>>
    /\ UNCHANGED <<dirVars, env, clock, branch, dir_exists, git_dir, remotes, tracking,
                   head, host_refs, started>>
    /\ BridgeAside

\* agent_instruction_test of api.py pushes the branch again (api.py:482).
TestPush(ok) ==
    /\ agent_pc = "test_push"
    /\ Do("push")
    /\ IF ok
       THEN /\ host_refs' = Put(host_refs, branch, At(heads, branch))
            /\ tracking' = Put(tracking, branch, At(heads, branch))
            /\ agent_pc' = "pushed"
            /\ UNCHANGED <<agent_result, handler, runs>>
       ELSE /\ GitFails("push")
            /\ UNCHANGED <<host_refs, tracking>>
    /\ UNCHANGED <<dirVars, env, clock, branch, dir_exists, git_dir, remotes, heads,
                   head, parent, started>>
    /\ BridgeAside

\* api.py:435-438, 486-489 without a token or off GitHub: the request
\* succeeds, on /app after provisioning, on ./temp after the second push.
RepoDone ==
    /\ \/ agent_pc = "provisioned" /\ app_dir = "/app"
       \/ agent_pc = "pushed"
    /\ ~(env.token /\ env.github)
    /\ AgentEnds(ReadyResult)
    /\ UNCHANGED <<dirVars, env, clock, branch, repoVars, ops, started>>
    /\ BridgeAside

\* api.py:435-436, 486-487 with a token and a GitHub URL: the pull request
\* is begun.
RepoPublish ==
    /\ \/ agent_pc = "provisioned" /\ app_dir = "/app"
       \/ agent_pc = "pushed"
    /\ env.token /\ env.github
    /\ agent_pc' = "pr_verify"
    /\ UNCHANGED <<dirVars, env, clock, branch, agent_result, repoVars, runVars, handler>>
    /\ BridgeAside

\* A second passes.
Tick ==
    /\ clock' = clock + 1
    /\ UNCHANGED <<agent_pc, env, branch, agent_result, dirVars, repoVars, runVars>>
    /\ UNCHANGED <<handler>>
    /\ BridgeAside

\* Someone else pushes a commit to a branch of the remote host.
HostAdvance(b) ==
    /\ b \in Names(host_refs)
    /\ parent' = parent \cup {<<NewCommit, At(host_refs, b)>>}
    /\ host_refs' = Put(host_refs, b, NewCommit)
    /\ UNCHANGED <<agentVars, dirVars, dir_exists, git_dir, remotes, tracking, heads,
                   head, runVars, handler>>
    /\ BridgeAside

-----------------------------------------------------------------------------
(* The server: /init, /chat and /stop requests in any order, the tool       *)
(* calling back in any order while it runs.                                 *)

PlainText == <<"o","k">>
Report25  == TokenMsg(<<"2",".","5","k">>, <<"1","2">>, <<"0",".","1">>, <<"2">>)

BridgeInit ==
    /\ has_io = FALSE
    /\ coder = FALSE
    /\ current_response = <<>>
    /\ input_queue = <<>>
    /\ current_edit_format = "none"
    /\ files_added_in_current_chat = 0
    /\ rel_fnames = {}
    /\ rel_read_only_fnames = {}
    /\ handler = "idle"
    /\ pc = "-"
    /\ inbox = {}
    /\ result = NoResult
    /\ last_ret = NoCall
    /\ asked = 0
    /\ dispatch_events = <<>>
    /\ gets = 0

LoopOff ==
    /\ messages = <<>>
    /\ loop_pc = "off"
    /\ iter = 0
    /\ conv_ret = [kind |-> "running"]
    /\ llm_calls = 0
    /\ dispatches = 0

\* No agent request has been made; /app does not exist.
AgentOff ==
    /\ agent_pc = "idle"
    /\ env = EnvUrlOnly
    /\ clock = 0
    /\ branch = NoBranch
    /\ agent_result = NoResult
    /\ app_dir = "/app"
    /\ other_dir = AbsentDir
    /\ dir_exists = FALSE
    /\ git_dir = FALSE
    /\ remotes = {}
    /\ tracking = {}
    /\ heads = {}
    /\ head = NoBranch
    /\ parent = {}
    /\ host_refs = {}
    /\ ops = <<>>
    /\ started = NoStart
    /\ runs = <<>>

Init == BridgeInit /\ LoopOff /\ AgentOff

Room(n) == Len(current_response) < n

QueueRoom == Len(input_queue) < MaxQueue

InboxRoom == Cardinality(inbox) < MaxInbox

(* Spec: the three endpoints under any arrival order; the tool asks for     *)
(* input, reports an error, returns or raises.                              *)
Client == \E r \in Requests : InboxRoom /\ Arrive(r)

Server ==
    \/ InitializeAider
    \/ InitDone(FirstFiles, FirstReadOnly)
    \/ InitFail
    \/ \E c \in Contents : ChatRejected(c)
    \/ \E c \in Contents : QueueRoom /\ ChatStart(c)
    \/ ToolReturn
    \/ ToolRaise("boom")
    \/ QueueRoom /\ StopAider
    \/ Room(MaxBuf) /\ Report("error", PlainText)
    \/ Room(MaxBuf) /\ GetInput("diff")
    \/ QueueGet

Next == Client \/ Server

Spec == Init /\ [][Next]_vars

\* The event loop runs a handler that is ready, the tool goes on while it can,
\* and a get returns once the queue holds a value.
FairSpec == Spec /\ WF_vars(Server)

(* SpecTool: one client; the tool makes every kind of callback.             *)
NextTool ==
    \/ \E r \in {InitReq, ChatReq("hi")} : InboxRoom /\ Arrive(r)
    \/ InitializeAider
    \/ InitDone(FirstFiles, FirstReadOnly)
    \/ InitFail
    \/ ChatRejected("hi")
    \/ QueueRoom /\ ChatStart("hi")
    \/ ToolReturn
    \/ ToolRaise("boom")
    \/ \E q \in Questions : Room(MaxBuf) /\ asked < MaxAsked /\ ConfirmAsk(q)
    \/ \E d \in PromptDefaults : Room(MaxBuf) /\ PromptAsk(Q_Run, d)
    \/ \E m \in {TextMsg(PlainText), Report25}, l \in BOOLEAN :
          Room(MaxBuf) /\ ToolOutput(m, l)
    \/ \E k \in {"error", "warning", "assistant"} : Room(MaxBuf) /\ Report(k, PlainText)
    \/ \E ef \in EditFormats : Room(MaxBuf) /\ GetInput(ef)
    \/ QueueGet

SpecTool == Init /\ [][NextTool]_vars

(* SpecFiles: the tool changes its file sets in every way and asks for     *)
(* input or reports its token use.                                          *)
NextFiles ==
    \/ \E r \in {InitReq, ChatReq("hi")} : InboxRoom /\ Arrive(r)
    \/ InitializeAider
    \/ \E f \in SUBSET Paths, r \in SUBSET Paths : InitDone(f, r)
    \/ QueueRoom /\ ChatStart("hi")
    \/ ToolReturn
    \/ Room(MaxBuf) /\ GetInput("diff")
    \/ QueueGet
    \/ Room(MaxBuf) /\ ToolOutput(Report25, FALSE)
    \/ \E f \in SUBSET Paths, r \in SUBSET Paths : ToolSetFiles(f, r)

SpecFiles == Init /\ [][NextFiles]_vars

(* SpecParse: one dispatch of an initialized session, in which the tool    *)
(* reports its token use once, with any token figure of up to MaxTokLen    *)
(* characters.                                                              *)

TokenChars == {"0", "1", "2", ".", "k", "m", "M"}

TokenStrings == UNION {[1..n -> TokenChars] : n \in 1..MaxTokLen}

\* The state after /init succeeded and a /chat dispatch began.
InDispatch ==
    /\ has_io = TRUE
    /\ coder = TRUE
    /\ current_response = <<>>
    /\ input_queue = <<"hi">>
    /\ current_edit_format = "none"
    /\ files_added_in_current_chat = 0
    /\ rel_fnames = FirstFiles
    /\ rel_read_only_fnames = FirstReadOnly
    /\ handler = "chat"
    /\ pc = "run"
    /\ inbox = {}
    /\ result = NoResult
    /\ last_ret = NoCall
    /\ asked = 0
    /\ dispatch_events = <<>>
    /\ gets = 0
    /\ LoopOff
    /\ AgentOff

NextParse ==
    \/ /\ Room(1)
       /\ last_ret = NoCall
       /\ \E t \in TokenStrings :
             ToolOutput(TokenMsg(t, <<"1">>, <<"0", ".", "1">>, <<"2">>), FALSE)
    \/ ToolReturn

SpecParse == InDispatch /\ [][NextParse]_vars

(* SpecLoop: conversation() runs inside the agent endpoint against an      *)
(* initialized session (api_agent.py:209-210); the LLM gives any reply, and *)
(* during a dispatch the tool asks for input, returns or raises.            *)

InLoop ==
    /\ has_io = TRUE
    /\ coder \in BOOLEAN
    /\ current_response = <<>>
    /\ input_queue = <<>>
    /\ current_edit_format = "none"
    /\ files_added_in_current_chat = 0
    /\ rel_fnames = FirstFiles
    /\ rel_read_only_fnames = FirstReadOnly
    /\ handler = "agent"
    /\ pc = "-"
    /\ inbox = {}
    /\ result = NoResult
    /\ last_ret = NoCall
    /\ asked = 0
    /\ dispatch_events = <<>>
    /\ gets = 0
    /\ messages = <<SystemTurn>>
    /\ loop_pc = "call"
    /\ iter = 0
    /\ conv_ret = Running
    /\ llm_calls = 0
    /\ dispatches = 0
    /\ AgentOff

InDispatchOfLoop == loop_pc = "dispatch"

NextLoop ==
    \/ \E r \in Replies : LLMReply(r)
    \/ LLMFail
    \/ DispatchReturn
    \/ DispatchRaise("boom")
    \/ InDispatchOfLoop /\ Room(MaxLoopBuf) /\ GetInput("diff")
    \/ QueueGet

SpecLoop == InLoop /\ [][NextLoop]_vars

(* SpecRoute: conversation() over the four routes of a reply (command,      *)
(* perplexity, quit, unparsable), with a tool that asks for input and asks  *)
(* to add a file during a dispatch.                                         *)
NextRoute ==
    \/ \E r \in {R_cmd, R_perp, R_quit, R_prose} : LLMReply(r)
    \/ DispatchReturn
    \/ DispatchRaise("boom")
    \/ InDispatchOfLoop /\ Room(MaxRouteBuf) /\ GetInput("diff")
    \/ QueueGet
    \/ InDispatchOfLoop /\ Room(MaxRouteBuf) /\ asked < MaxLoopAsked /\ ConfirmAsk(Q_AddFile)

SpecRoute == InLoop /\ [][NextRoute]_vars

(* SpecRepo: agent requests of api.py in a row, on /app and on ./temp, with *)
(* REPO_URL set, without a token, with no .env file or one that holds an    *)
(* empty GITHUB_TOKEN, against a remote whose default branch is main,       *)
(* master or missing; /app is absent or holds a clone of the remote; time   *)
(* passes and the remote moves on.                                          *)

HostChoices == {{<<"main", 1>>}, {<<"master", 1>>}, {}}

RepoInitIn(envs) ==
    /\ BridgeInit
    /\ LoopOff
    /\ agent_pc = "idle"
    /\ env \in envs
    /\ clock = 0
    /\ branch = NoBranch
    /\ agent_result = NoResult
    /\ app_dir = "/app"
    /\ other_dir = AbsentDir
    /\ host_refs \in HostChoices
    /\ parent = {<<p[2], 0>> : p \in host_refs}
    /\ \/ /\ dir_exists = FALSE
          /\ git_dir = FALSE
          /\ remotes = {}
          /\ tracking = {}
          /\ heads = {}
          /\ head = NoBranch
       \/ /\ host_refs # {}
          /\ dir_exists = TRUE
          /\ git_dir = TRUE
          /\ remotes = {"origin"}
          /\ tracking = host_refs
          /\ heads = host_refs
          /\ head \in Names(host_refs)
    /\ ops = <<>>
    /\ started = NoStart
    /\ runs = <<>>

RepoInit == RepoInitIn({EnvUrlOnly})

\* No .env file, and the .env file whose only line is an empty GITHUB_TOKEN.
TokenlessDotEnvs == {NoDotEnv, [NoDotEnv EXCEPT !.token_blank = TRUE]}

NextRepo ==
    \/ \E dir \in Dirs, ok \in BOOLEAN, f \in TokenlessDotEnvs :
          Len(runs) < MaxRuns /\ RepoStart(dir, ok, f)
    \/ \E ok \in BOOLEAN : GitInit(ok)
    \/ CreateRemoteFails
    \/ \E ok \in BOOLEAN : Fetch(ok)
    \/ CheckoutMain
    \/ CheckoutMaster
    \/ \E ok \in BOOLEAN : ReuseFetch(ok)
    \/ CreateHead
    \/ \E dirty \in BOOLEAN, ok \in BOOLEAN :
          (dirty => Cardinality(parent) < MaxCommits) /\ CommitIfDirty(dirty, ok)
    \/ \E ok \in BOOLEAN : Push(ok)
    \/ \E ok \in BOOLEAN : VerifyFetch(ok)
    \/ \E ok \in BOOLEAN : (ok => Cardinality(parent) < MaxCommits) /\ TestCommit(ok)
    \/ \E ok \in BOOLEAN : TestPush(ok)
    \/ RepoDone
    \/ clock < MaxClock /\ Tick
    \/ \E b \in {"main", "master"} : Cardinality(parent) < MaxCommits /\ HostAdvance(b)

SpecRepo == RepoInit /\ [][NextRepo]_vars

(* SpecEnv: the agent requests of api.py under every environment of the    *)
(* process and every .env file: the refusal without REPO_URL, the file      *)
(* loaded by agent_instruction_test, and the pull request.                  *)

EnvInit == RepoInitIn(Envs)

NextEnv ==
    \/ AgentNoRepoUrl
    \/ \E f \in DotEnvs : TestNoRepoUrl(f)
    \/ \E dir \in Dirs, ok \in BOOLEAN, f \in DotEnvs :
          Len(runs) < MaxRuns /\ RepoStart(dir, ok, f)
    \/ \E ok \in BOOLEAN : GitInit(ok)
    \/ CreateRemoteFails
    \/ \E ok \in BOOLEAN : Fetch(ok)
    \/ CheckoutMain
    \/ CheckoutMaster
    \/ \E ok \in BOOLEAN : ReuseFetch(ok)
    \/ CreateHead
    \/ \E dirty \in BOOLEAN, ok \in BOOLEAN :
          (dirty => Cardinality(parent) < MaxCommits) /\ CommitIfDirty(dirty, ok)
    \/ \E ok \in BOOLEAN : Push(ok)
    \/ \E ok \in BOOLEAN : VerifyFetch(ok)
    \/ \E ok \in BOOLEAN : (ok => Cardinality(parent) < MaxCommits) /\ TestCommit(ok)
    \/ \E ok \in BOOLEAN : TestPush(ok)
    \/ RepoDone
    \/ RepoPublish
    \/ PRSplitFails
    \/ \E o \in VerifyOutcomes : PRVerify(o)
    \/ \E o \in PostOutcomes : PRPostMain(o)
    \/ \E o \in PostOutcomes : PRPostMaster(o)
    \/ clock < MaxClock /\ Tick
    \/ \E b \in {"main", "master"} : Cardinality(parent) < MaxCommits /\ HostAdvance(b)

SpecEnv == EnvInit /\ [][NextEnv]_vars

(* SpecAgent: one agent request of api_agent.py, under every environment, *)
(* against a remote whose default branch is main, master or missing; the   *)
(* LLM commands, quits or sends an object without a type.                   *)

AgentInit ==
    /\ BridgeInit
    /\ LoopOff
    /\ agent_pc = "idle"
    /\ env \in Envs
    /\ clock = 0
    /\ branch = NoBranch
    /\ agent_result = NoResult
    /\ app_dir = "/app"
    /\ other_dir = AbsentDir
    /\ host_refs \in HostChoices
    /\ parent = {<<p[2], 0>> : p \in host_refs}
    /\ \/ /\ dir_exists = FALSE
          /\ git_dir = FALSE
          /\ remotes = {}
          /\ tracking = {}
          /\ heads = {}
          /\ head = NoBranch
       \/ /\ host_refs # {}
          /\ dir_exists = TRUE
          /\ git_dir = TRUE
          /\ remotes = {"origin"}
          /\ tracking = host_refs
          /\ heads = host_refs
          /\ head \in Names(host_refs)
    /\ ops = <<>>
    /\ started = NoStart
    /\ runs = <<>>

NextAgent ==
    \/ AgentNoRepoUrl
    \/ \E dir \in Dirs : Len(runs) < MaxAgentRuns /\ AgentStart(dir)
    \/ \E o \in PrepareOutcomes : PrepareDir(o)
    \/ \E ok \in BOOLEAN : GitInit(ok)
    \/ CreateRemoteFails
    \/ \E ok \in BOOLEAN : Fetch(ok)
    \/ CheckoutMain
    \/ CheckoutMaster
    \/ \E dirty \in BOOLEAN, ok \in BOOLEAN :
          (dirty => Cardinality(parent) < MaxCommits) /\ CommitIfDirty(dirty, ok)
    \/ \E ok \in BOOLEAN : Push(ok)
    \/ \E ok \in BOOLEAN : VerifyFetch(ok)
    \/ \E ok \in BOOLEAN, reports \in MainReports : AgentInitSession(ok, reports)
    \/ \E r \in {R_quit, R_cmd, R_notype} : LLMReply(r)
    \/ DispatchReturn
    \/ DispatchRaise("boom")
    \/ LoopRaised
    \/ \E ok \in BOOLEAN : FinalPush(ok)
    \/ PRSplitFails
    \/ \E o \in VerifyOutcomes : PRVerify(o)
    \/ \E o \in PostOutcomes : PRPostMain(o)
    \/ \E o \in PostOutcomes : PRPostMaster(o)

SpecAgent == AgentInit /\ [][NextAgent]_vars

-----------------------------------------------------------------------------
(* Properties.                                                              *)

LastEvent == current_response[Len(current_response)]

\* C3: counting from the session's start or the last get_input, the 1st to
\* 4th add-file confirmation is approved, the 5th and every later one is
\* rejected and leaves the quota warning as the last event, right after its
\* confirm event; when get_input has been called the counter is 0.
C3_FileAddQuota ==
    /\ (last_ret.op = "confirm_ask" /\ last_ret.arg \in AddFileQuestions) =>
          /\ last_ret.value = (asked <= 4)
          /\ last_ret.value = FALSE =>
                /\ Len(current_response) >= 2
                /\ LastEvent.type = "warning"
                /\ Contains(LimitPhrase, LastEvent.message)
                /\ current_response[Len(current_response) - 1].type = "confirm"
          /\ last_ret.value = TRUE => LastEvent.type = "confirm"
    /\ last_ret.op = "get_input" => files_added_in_current_chat = 0 /\ asked = 0

\* A 5th (or later) add-file confirmation has just been rejected.
C3_Witness ==
    /\ last_ret.op = "confirm_ask"
    /\ last_ret.value = FALSE
    /\ asked >= 5
    /\ LastEvent.type = "warning"

\* C4: in a dispatch, the event right after a tool_output event that carries
\* token counts is the files_status event that report triggered.
C4_StatusFollowsOutput ==
    handler = "chat" =>
        \A n \in 1..Len(current_response) :
            (/\ current_response[n].type = "tool_output"
             /\ "tokens_sent" \in DOMAIN current_response[n])
            => /\ n + 1 <= Len(current_response)
               /\ current_response[n + 1].type = "files_status"

\* C7: a dispatch that ended, by the tool raising or returning, returned
\* status "error" (with the message) or "success", and its responses are
\* exactly the events appended during that dispatch, in order.
C7_DispatchCatches ==
    (handler = "idle" /\ result.status \in {"success", "error"}) =>
        /\ result.responses = dispatch_events
        /\ result.status = "error" => result.error = "boom"

\* The tool raised after it had reported something.
C7_Witness ==
    /\ handler = "idle"
    /\ result.status = "error"
    /\ Len(result.responses) >= 1

\* C8: a get_input suspended on an empty queue, with a stop request sent,
\* eventually returns "exit".
C8_StopUnblocks ==
    (pc = "get" /\ input_queue = <<>> /\ StopReq \in inbox)
        ~> (last_ret.op = "get_input" /\ last_ret.value = "exit")

DecimalNumber(s) ==
    /\ IsNumeral(s)
    /\ s[1] \in Digits
    /\ s[Len(s)] \in Digits

TokenFigure(s) ==
    \/ DecimalNumber(s)
    \/ /\ Len(s) >= 2
       /\ s[Len(s)] \in {"k", "m"}
       /\ DecimalNumber(SubSeq(s, 1, Len(s) - 1))

Expanded(s) ==
    CASE s[Len(s)] = "k" -> ExactScaled(SubSeq(s, 1, Len(s) - 1), 3)
      [] s[Len(s)] = "m" -> ExactScaled(SubSeq(s, 1, Len(s) - 1), 6)
      [] OTHER           -> ExactScaled(s, 0)

\* C5: a report whose sent and received figures are decimal numbers with an
\* optional "k" or "m" suffix gives an event with the figures expanded
\* exactly (k = x1,000, m = x1,000,000) and with the two costs.
C5_TokensExpanded ==
    (last_ret.op = "tool_output" /\ last_ret.arg.form = "tokens"
        /\ TokenFigure(last_ret.arg.sent) /\ TokenFigure(last_ret.arg.received))
    => /\ current_response # <<>>
       /\ LastEvent.type = "tool_output"
       /\ "tokens_sent" \in DOMAIN LastEvent
       /\ LastEvent.tokens_sent = Expanded(last_ret.arg.sent)
       /\ LastEvent.tokens_received = Expanded(last_ret.arg.received)
       /\ LastEvent.cost_message = last_ret.arg.cost_message
       /\ LastEvent.cost_session = last_ret.arg.cost_session

\* C6: no files_status snapshot lists a path as editable and as read-only;
\* in the snapshot get_input has just appended, a path the tool reports in
\* both sets is among the read-only files and not among the editable ones.
C6_SnapshotDisjoint ==
    /\ \A n \in 1..Len(current_response) :
          current_response[n].type = "files_status" =>
              Range(current_response[n].files.editable_files)
                  \cap Range(current_response[n].files.read_only_files) = {}
    /\ pc = "get" =>
          \A p \in rel_fnames \cap rel_read_only_fnames :
              /\ ShorterPath(p) \in Range(LastEvent.files.read_only_files)
              /\ RelPath(p) \notin Range(LastEvent.files.editable_files)

\* A snapshot was taken while the tool reported both paths in both sets.
C6_Witness ==
    /\ pc = "get"
    /\ rel_fnames = Paths
    /\ rel_read_only_fnames = Paths
    /\ LastEvent.type = "files_status"

AssistantAt(i) == messages[i].role = "assistant"

ParsedAt(i) == extract_json_from_response(messages[i].content)

QuitAt(i) == AssistantAt(i) /\ ParsedAt(i) = [type |-> "T_aider", content |-> "C_quit"]

CommandAt(i) ==
    /\ AssistantAt(i)
    /\ ParsedAt(i) # NoJson
    /\ ParsedAt(i).type = "T_aider"
    /\ ParsedAt(i).content \notin {"C_quit", Absent}

\* C1: the loop makes at most 5 chat-completion calls; an assistant turn
\* that parses to type aider with content /quit is the last turn of the
\* transcript and the loop is over: the calls made are the assistant turns up
\* to it and the dispatches made are the earlier command replies, so the
\* quit reply caused no dispatch and no call came after it.
C1_LoopBounded ==
    /\ llm_calls <= 5
    /\ \A i \in 1..Len(messages) :
          QuitAt(i) =>
             /\ i = Len(messages)
             /\ loop_pc = "done"
             /\ pc # "run"
             /\ llm_calls = Cardinality({j \in 1..i : AssistantAt(j)})
             /\ dispatches = Cardinality({j \in 1..(i - 1) : CommandAt(j)})

\* The fifth reply is a quit, after a round that dispatched a command.
C1_Witness ==
    /\ llm_calls = 5
    /\ dispatches >= 1
    /\ QuitAt(Len(messages))
    /\ loop_pc = "done"

\* C2: when the loop is over, by a quit reply or by the cap, conversation()
\* has returned the transcript.
C2_QuitReturnsTranscript ==
    loop_pc = "done" => conv_ret = Returned(messages)

\* A request of the reuse path has come back from setup_repository.
ReuseProvisioned == agent_pc = "provisioned" /\ started.reuse

LastRun == runs[Len(runs)]

\* The request before this one worked in the same directory and succeeded.
AfterGoodRun == Len(runs) >= 1 /\ LastRun.ok /\ LastRun.dir = app_dir

\* The branch is at the commit that was checked out when the request began,
\* or at a commit made on top of it.
FromCheckedOut ==
    /\ branch \in Names(heads)
    /\ \/ At(heads, branch) = started.at
       \/ <<At(heads, branch), started.at>> \in parent

\* C10: a reuse-path run that completes has issued no init, no remote
\* registration and no checkout from origin/main or origin/master, and has
\* its branch at the commit checked out when it began or on a commit made on
\* top of it; and when the run before it on the same repository succeeded,
\* the two runs' branches are distinct, both exist, and the earlier one is
\* where the earlier run left it.
C10_TwoDistinctBranches ==
    ReuseProvisioned =>
        /\ Range(ops) \cap {"init", "create_remote", "checkout_main", "checkout_master"} = {}
        /\ remotes = {"origin"}
        /\ FromCheckedOut
        /\ AfterGoodRun =>
              /\ LastRun.branch # branch
              /\ {LastRun.branch, branch} \subseteq Names(heads)
              /\ LastRun.branch \in Names(started.heads)
              /\ <<LastRun.branch, At(started.heads, LastRun.branch)>> \in heads

\* What holds of the reuse path: a run that completes has issued no init, no
\* remote registration and no checkout from origin/main or origin/master, has
\* left every other local branch where it was, and has its branch at the
\* commit checked out when it began or on a commit made on top of it; and if
\* the run before it succeeded and began in another second, the two runs'
\* branches are distinct and the earlier one is still where it was.
ReuseKeepsBranches ==
    ReuseProvisioned =>
        /\ Range(ops) \cap {"init", "create_remote", "checkout_main", "checkout_master"} = {}
        /\ remotes = {"origin"}
        /\ \A p \in started.heads : p[1] # branch => p \in heads
        /\ FromCheckedOut
        /\ (AfterGoodRun /\ LastRun.time # started.time) =>
              /\ LastRun.branch # branch
              /\ LastRun.branch \in Names(started.heads)
              /\ <<LastRun.branch, At(started.heads, LastRun.branch)>> \in heads

LastOp == IF ops = <<>> THEN "-" ELSE ops[Len(ops)]

\* C9: right after the checkout from origin/main failed (there is no such
\* ref), the request has reported nothing and is about to try origin/master;
\* right after the checkout from origin/master, either it succeeded and the
\* branch stands at origin/master with the push stage next, or it failed and
\* the request has ended with "Git operation failed" carrying the error of
\* that second attempt, with no push and no pull-request call issued.
C9_MasterFallback ==
    /\ (LastOp = "checkout_main" /\ "main" \notin Names(tracking)) =>
          /\ agent_pc = "checkout_master"
          /\ agent_result = NoResult
          /\ handler = "agent"
    /\ (LastOp = "checkout_master" /\ "master" \in Names(tracking)) =>
          /\ agent_pc \in {"commit", "push"}
          /\ agent_result = NoResult
          /\ head = branch
          /\ <<branch, At(tracking, "master")>> \in heads
    /\ (LastOp = "checkout_master" /\ "master" \notin Names(tracking)) =>
          /\ agent_pc = "done"
          /\ agent_result = HttpError(500, "Git operation failed", "checkout_master")
          /\ Range(ops) \cap {"push", "GET", "POST_main", "POST_master"} = {}
          /\ SubSeq(ops, Len(ops) - 1, Len(ops)) = <<"checkout_main", "checkout_master">>

\* Both checkouts failed and the request has ended.
C9_Witness ==
    /\ LastOp = "checkout_master"
    /\ Names(tracking) = {}
    /\ agent_pc = "done"
    /\ agent_result.status = "http_error"

Occurrences(op) == {i \in 1..Len(ops) : ops[i] = op}

FirstRejectedForBase ==
    \E i \in Occurrences("POST_main") : ops[i + 1] = "reply_invalid_base"

\* C11: a creation request with base master is sent only after the first
\* creation request was rejected for an invalid base, and has been sent by
\* the end of every request whose first creation request was rejected so;
\* there are never more than two creation requests, one per base.
C11_RetryOnlyForBase ==
    /\ "POST_master" \in Range(ops) => FirstRejectedForBase
    /\ (agent_pc = "done" /\ FirstRejectedForBase) => "POST_master" \in Range(ops)
    /\ Cardinality(Occurrences("POST_main")) <= 1
    /\ Cardinality(Occurrences("POST_master")) <= 1

\* C12: after the fetch that follows the push, whether it succeeded or not,
\* the request has not failed: provisioning returned and the next step is due.
C12_VerifyNotFatal ==
    LastOp = "verify_fetch" =>
        /\ agent_result.status # "http_error"
        /\ agent_pc = "provisioned"

\* The turn is a reply that is not JSON, or an object without a type, or an
\* aider object without a content.
ProtocolErrorAt(i) ==
    /\ AssistantAt(i)
    /\ \/ ParsedAt(i) = NoJson
       \/ ParsedAt(i).type = Absent
       \/ ParsedAt(i).type = "T_aider" /\ ParsedAt(i).content = Absent

\* C13: a reply with a protocol error is skipped: the loop has not ended by
\* an exception right after such a reply, and the dispatches made are those of
\* the well-formed command replies.
C13_ProtocolErrorsSkipped ==
    /\ (Len(messages) >= 1 /\ ProtocolErrorAt(Len(messages))) =>
          ~(loop_pc = "raised" /\ conv_ret.error = "KeyError")
    /\ loop_pc # "off" => dispatches = Cardinality({j \in 1..Len(messages) : CommandAt(j)})

\* A handler takes a chat request while no coder is installed.
ChatTakenUninitialized ==
    /\ handler = "idle"
    /\ ~coder
    /\ \E c \in Contents : ChatReq(c) \in inbox /\ ChatReq(c) \notin inbox'

\* The initialization handler installs its session object.
SessionReplaced == handler = "idle" /\ handler' = "init"

\* C14: a chat request taken while no initialization has succeeded is answered
\* with the 'not initialized' client error and leaves the session, the queue,
\* the buffer and the tool as they were; an initialization installs a session
\* with an empty buffer, an empty queue and a file counter of 0, and when it
\* succeeds the queue is still empty.
C14_RejectedOrFresh ==
    [][ /\ ChatTakenUninitialized =>
              /\ result' = [status |-> "http_400", detail |-> "Aider not initialized"]
              /\ UNCHANGED <<bridgeVars, toolVars, handler, pc, dispatch_events>>
        /\ SessionReplaced =>
              /\ has_io'
              /\ current_response' = <<>>
              /\ input_queue' = <<>>
              /\ files_added_in_current_chat' = 0
        /\ (handler = "init" /\ handler' = "idle" /\ coder') =>
              input_queue' = <<>>
      ]_vars

C14_Witness ==
    /\ result = [status |-> "http_400", detail |-> "Aider not initialized"]
    /\ has_io
    /\ ~coder
    /\ handler = "idle"

\* coder.run has been entered for a dispatch and has made no callback yet
\* (api_aider.py:207).
ToolJustStarted == handler = "chat" /\ pc = "run" /\ last_ret = NoCall

\* C15: when the tool starts running for a dispatch, the event buffer is empty
\* and the file counter is 0, whatever the earlier dispatches did.
C15_ResetPerMessage ==
    ToolJustStarted =>
        /\ current_response = <<>>
        /\ files_added_in_current_chat = 0

\* A chat request is taken by a handler that begins a dispatch.
DispatchBegins ==
    /\ \E c \in Contents : ChatReq(c) \in inbox /\ ChatReq(c) \notin inbox'
    /\ handler' = "chat"
    /\ pc' = "run"

\* A handler (a dispatch or an initialization) has started and not returned.
InFlight == handler # "idle" \/ pc # "-"

\* C16: a dispatch clears the buffer and starts the tool only when no earlier
\* dispatch, and no initialization, of the session is still running; and only
\* the running handler's own tool touches the session while it runs.
C16_OneDispatchInFlight ==
    [][ /\ DispatchBegins => ~InFlight
        /\ (InFlight /\ handler' # "idle") => handler' = handler
      ]_vars

C16_Witness ==
    /\ handler = "chat"
    /\ pc = "get"
    /\ \E c \in Contents : ChatReq(c) \in inbox

\* The Publisher's last REST call failed in transport (requests raised a
\* RequestException).
TransportFailed == LastOp \in {"lookup_RequestException", Reply(RespTransport)}

\* The Publisher's last REST call was answered by the host with a rejection
\* that no retry follows.
HostRejected ==
    /\ agent_pc = "done"
    /\ LastOp \in {"lookup_404"} \cup
                  {Reply(r) : r \in PostOutcomes \ {RespCreated, RespTransport}}

\* C17: a transport failure of the lookup or of a creation request ends the
\* request with the error 'Failed to create PR due to request error' and
\* never with a result payload; a rejection by the host ends it with a
\* result of status 'error' and never with a raised error.
C17_TransportDistinct ==
    /\ TransportFailed =>
          /\ agent_result.status = "http_error"
          /\ agent_result.cause = "Failed to create PR due to request error"
    /\ HostRejected => agent_result.status = "error"

\* The lookup was made and answered 200 somewhere before position i of the log.
FoundBefore(i) == \E j \in 1..(i - 2) : ops[j] = "GET" /\ ops[j + 1] = "lookup_200"

\* C18: every creation request comes after a lookup that answered 200; a
\* lookup answered otherwise ends the request with a result of status
\* 'error', and after a lookup that did not answer 200 no creation request
\* is in the log.
C18_LookupFirst ==
    /\ \A i \in Occurrences("POST_main") \cup Occurrences("POST_master") : FoundBefore(i)
    /\ LastOp = "lookup_404" =>
          /\ agent_pc = "done"
          /\ agent_result.status = "error"
    /\ Range(ops) \cap {"lookup_404", "lookup_RequestException"} # {} =>
          Range(ops) \cap {"POST_main", "POST_master"} = {}

C18_Witness ==
    /\ LastOp = "lookup_404"
    /\ agent_result = [status |-> "error",
                       message |-> "Branch does not exist or is not accessible"]

\* C19: without a remote repository URL in the environment, the only step a
\* request takes is to fail with status 400: no branch name is generated,
\* the working directory and the repository are left alone, no session is
\* installed, and no LLM call, git operation or REST call is made.
C19_NoUrlNoEffect ==
    [][ ~env.repo_url =>
          /\ agent_pc' = "done"
          /\ agent_result' = HttpError(400, "Environment variable REPO_URL must be set", "-")
          /\ ops' = <<>>
          /\ UNCHANGED <<branch, dirVars, repoVars, bridgeVars, toolVars, loopVars, runs>>
      ]_vars

C19_Witness ==
    /\ ~env.repo_url
    /\ agent_pc = "done"
    /\ agent_result.status = "http_error"
    /\ agent_result.code = 400
    /\ branch = NoBranch

\* The stages of one run, in the order of api_agent.py:205-216.
StageOrder == <<"push", "verify_fetch", "init_session", "push", "GET",
                "POST_main", "POST_master">>

IsStage(op) == op \in Range(StageOrder)

StageLog == SelectSeq(ops, IsStage)

InOrder ==
    /\ Len(StageLog) <= Len(StageOrder)
    /\ \A i \in 1..Len(StageLog) : StageLog[i] = StageOrder[i]

\* C20: the stages of a run are logged only in the order provisioning push,
\* session initialization, post-loop push, Publisher requests; the loop runs
\* only right after the session initialization and the run leaves it only
\* when it has returned or raised, a raise ending the run with an error; and
\* a run with the Publisher enabled that ends without a Publisher request
\* ends with an error.
C20_OrchestrationOrder ==
    [][ /\ InOrder'
        /\ (loop_pc' # "off") = (agent_pc' = "conversation")
        /\ agent_pc' = "conversation" => LastOp' = "init_session"
        /\ (agent_pc = "conversation" /\ agent_pc' # "conversation") =>
              /\ loop_pc \in {"done", "raised"}
              /\ loop_pc = "raised" =>
                    /\ agent_pc' = "done"
                    /\ agent_result'.status = "http_error"
                    /\ ops' = ops
        /\ (agent_pc' = "done" /\ env.token /\ env.github /\ "GET" \notin Range(ops')) =>
              agent_result'.status = "http_error"
      ]_vars

C20_Witness ==
    /\ agent_pc = "done"
    /\ StageLog = SubSeq(StageOrder, 1, 6)
    /\ agent_result.status = "success"

\* The tool is suspended in input_queue.get() with nothing to take.
Suspended == pc = "get" /\ input_queue = <<>>

\* C21: during a dispatch made by the loop a get_input of the tool finds a
\* value on the queue, so the bridge is never suspended in loop mode.
C21_LoopNeverBlocks == InDispatchOfLoop => ~Suspended

\* C22: the input queue holds at most one pending value in every state.
C22_QueueSingleSlot == Len(input_queue) <= 1

\* The step is an approved add-file confirmation.
ApprovedAddStep ==
    /\ last_ret'.op = "confirm_ask"
    /\ last_ret'.arg \in AddFileQuestions
    /\ last_ret'.value = TRUE
    /\ Len(current_response') = Len(current_response) + 1

\* The step is a get_input call reaching its blocking get.
GetInputStep == pc = "run" /\ pc' = "get"

\* C23: the file counter stays within 0..4; it changes only by +1 in an
\* approved add-file confirmation and by reset to 0 in get_input (a new
\* session object starts at 0), and every approved add-file confirmation
\* and every get_input changes it so.
C23_CounterRange ==
    [][ /\ files_added_in_current_chat \in 0..4
        /\ files_added_in_current_chat' \in 0..4
        /\ files_added_in_current_chat' # files_added_in_current_chat =>
              \/ ApprovedAddStep
              \/ GetInputStep
              \/ SessionReplaced /\ files_added_in_current_chat' = 0
        /\ ApprovedAddStep =>
              files_added_in_current_chat' = files_added_in_current_chat + 1
        /\ GetInputStep => files_added_in_current_chat' = 0
      ]_vars

C23_Witness ==
    /\ files_added_in_current_chat = 4
    /\ last_ret.op = "confirm_ask"
    /\ last_ret.arg \in AddFileQuestions
    /\ last_ret.value = FALSE

\* The blocking get of a get_input call returns.
GetReturns == pc = "get" /\ pc' = "run"

\* C24: when get_input reaches its blocking get, the counter is 0, the
\* requested edit format is recorded, exactly one files_status event has been
\* appended and the queue is untouched; the get returns the oldest value of
\* the queue and removes that value only; no other callback suspends.
C24_GetInputOrder ==
    [][ /\ GetInputStep =>
              /\ files_added_in_current_chat' = 0
              /\ last_ret'.op = "get_input"
              /\ current_edit_format' = last_ret'.arg
              /\ Len(current_response') = Len(current_response) + 1
              /\ SubSeq(current_response', 1, Len(current_response)) = current_response
              /\ current_response'[Len(current_response')].type = "files_status"
              /\ input_queue' = input_queue
        /\ GetReturns =>
              /\ input_queue # <<>>
              /\ last_ret'.value = input_queue[1]
              /\ input_queue' = SubSeq(input_queue, 2, Len(input_queue))
              /\ UNCHANGED <<current_response, files_added_in_current_chat,
                             current_edit_format>>
        /\ (pc' = "get" /\ pc # "get") => GetInputStep
        /\ (last_ret'.op \notin {"get_input", "none"}) => pc' # "get"
      ]_vars

C24_Witness ==
    /\ pc = "run"
    /\ last_ret.op = "get_input"
    /\ last_ret.value \in Contents
    /\ input_queue # <<>>
    /\ files_added_in_current_chat = 0

\* The events a step appended to the buffer.
Appended == SubSeq(current_response', Len(current_response) + 1, Len(current_response'))

AppendsOnly ==
    /\ Len(current_response') >= Len(current_response)
    /\ SubSeq(current_response', 1, Len(current_response)) = current_response

ConfirmStep == last_ret'.op = "confirm_ask" /\ current_response' # current_response

PromptStep == last_ret'.op = "prompt_ask" /\ current_response' # current_response

\* C25: confirm_ask and prompt_ask leave the tool running and the queue as it
\* was. prompt_ask appends one prompt event and returns its default.
\* confirm_ask appends one confirm event, and after it one warning event
\* exactly when it rejects; a question that is not an add-file question is
\* approved and leaves the counter as it was, at any value of the counter.
C25_ConfirmPromptFrame ==
    [][ /\ PromptStep =>
              /\ pc' = pc
              /\ input_queue' = input_queue
              /\ AppendsOnly
              /\ Len(Appended) = 1
              /\ Appended[1].type = "prompt"
              /\ Appended[1].question = last_ret'.arg.question
              /\ last_ret'.value = last_ret'.arg.default
              /\ files_added_in_current_chat' = files_added_in_current_chat
        /\ ConfirmStep =>
              /\ pc' = pc
              /\ input_queue' = input_queue
              /\ AppendsOnly
              /\ Appended[1].type = "confirm"
              /\ Appended[1].question = last_ret'.arg
              /\ Len(Appended) = (IF last_ret'.value THEN 1 ELSE 2)
              /\ Len(Appended) = 2 => Appended[2].type = "warning"
              /\ last_ret'.arg \notin AddFileQuestions =>
                    /\ last_ret'.value = TRUE
                    /\ files_added_in_current_chat' = files_added_in_current_chat
      ]_vars

C25_Witness ==
    /\ last_ret.op = "confirm_ask"
    /\ last_ret.arg = Q_AddDocs
    /\ last_ret.value = TRUE
    /\ files_added_in_current_chat = 4

\* An LLM call returned in this step.
ReplyStep == llm_calls' = llm_calls + 1 /\ messages' # messages

\* C26: the transcript starts with the system turn and only grows: every turn
\* it held stays as it was; an LLM call that returns appends the reply as
\* received as an assistant turn, also when the reply does not parse; the
\* transcript holds at most two turns per LLM call after the system turn,
\* and never more than 11.
C26_TranscriptAppendOnly ==
    [][ /\ messages'[1].role = "system"
        /\ Len(messages') >= Len(messages)
        /\ SubSeq(messages', 1, Len(messages)) = messages
        /\ ReplyStep =>
              /\ messages'[Len(messages) + 1].role = "assistant"
              /\ messages'[Len(messages) + 1].content \in Replies
        /\ Len(messages') <= 1 + 2 * llm_calls'
        /\ Len(messages') <= 11
      ]_vars

C26_Witness ==
    /\ Len(messages) = 11
    /\ llm_calls = 5
    /\ loop_pc = "done"

\* What the reply appended in this step parses to.
ParsedReply == extract_json_from_response(messages'[Len(messages) + 1].content)

IsCommand(js) ==
    /\ js # NoJson
    /\ js.type = "T_aider"
    /\ js.content \notin {"C_quit", Absent}

IsPerplexity(js) ==
    /\ js # NoJson
    /\ js.type = "T_perplexity"
    /\ js.content # Absent

\* A dispatch made by the loop has ended.
DispatchEnded == loop_pc = "dispatch" /\ loop_pc' # "dispatch"

\* C27: a reply is dispatched if and only if it parses to type aider with a
\* content other than /quit; in an initialized session the dispatch clears
\* the buffer and enqueues that content once, and when it ends, its
\* serialized result, of status success or error, is the next user turn. A
\* perplexity reply appends its content as the next user turn; every reply
\* that is not dispatched leaves the bridge as it was.
C27_DispatchIffCommand ==
    [][ /\ ReplyStep =>
              /\ (dispatches' = dispatches + 1) = IsCommand(ParsedReply)
              /\ dispatches' \in {dispatches, dispatches + 1}
              /\ (IsCommand(ParsedReply) /\ has_io /\ coder) =>
                    /\ loop_pc' = "dispatch"
                    /\ Len(messages') = Len(messages) + 1
                    /\ input_queue' = Append(input_queue, ParsedReply.content)
                    /\ current_response' = <<>>
              /\ ~IsCommand(ParsedReply) =>
                    /\ UNCHANGED bridgeVars
                    /\ loop_pc' # "dispatch"
              /\ IsPerplexity(ParsedReply) =>
                    /\ Len(messages') = Len(messages) + 2
                    /\ messages'[Len(messages')] = UserTurn(<<ParsedReply.content>>)
        /\ DispatchEnded =>
              /\ result'.status \in {"success", "error"}
              /\ messages' = Append(messages, [role |-> "user", content |-> <<"json", result'>>])
              /\ dispatches' = dispatches
        /\ ~ReplyStep => dispatches' = dispatches
      ]_vars

C27_Witness ==
    /\ Len(messages) >= 3
    /\ result.status = "error"
    /\ messages[Len(messages)] = UserTurn(<<"json", result>>)
    /\ files_added_in_current_chat > 0
    /\ input_queue # <<>>

\* The first brace-delimited substring of a text in the shortest reading:
\* from the first "{" to the first "}" after it; <<>> when there is none.
\* The substring the code takes, to the last "}", is JsonMatch.
FirstBraced(text) ==
    LET opens  == Positions(text, "{")
        closes == {c \in Positions(text, "}") : opens # {} /\ c > Min(opens)}
    IN  IF closes # {} THEN SubSeq(text, Min(opens), Min(closes)) ELSE <<>>

\* C28: for every reply in the transcript, when its first brace-delimited
\* substring is valid JSON the extraction returns the object parsed from it;
\* otherwise it returns the object parsed from the whole reply when that is
\* valid JSON, and fails only when both are not.
C28_FirstBracedParsed ==
    \A i \in 1..Len(messages) :
        AssistantAt(i) =>
            LET text == messages[i].content
            IN  IF IsJsonObject(FirstBraced(text))
                THEN ParsedAt(i) = JsonLoads(FirstBraced(text))
                ELSE IF IsJsonObject(text)
                THEN ParsedAt(i) = JsonLoads(text)
                ELSE ParsedAt(i) = NoJson

\* The get_input call about to return is the first one of the running
\* dispatch, whether /chat or the agent loop made the dispatch and whatever
\* the tool reported before it: chat_with_aider_api (api_aider.py:203-204)
\* begins the count and get_input (124) adds to it.
FirstGetOfDispatch == gets = 1

\* The message of the running dispatch: the value put last, since no other
\* handler runs during a dispatch.
OwnMessage == input_queue[Len(input_queue)]

\* C29: the value the first get_input of a dispatch returns is the message
\* of that dispatch.
C29_OwnMessageReturned ==
    [][ (GetReturns /\ FirstGetOfDispatch) => last_ret'.value = OwnMessage ]_vars

\* The confirm event of the confirm_ask call that returned last: the last
\* event when it approved, the one before its warning when it rejected.
LastConfirmEvent ==
    IF last_ret.value
    THEN current_response[Len(current_response)]
    ELSE current_response[Len(current_response) - 1]

\* C30: the confirm event of a confirmation records the answer 'Yes' exactly
\* when the confirmation was approved.
C30_AnswerAgrees ==
    last_ret.op = "confirm_ask" =>
        /\ LastConfirmEvent.type = "confirm"
        /\ LastConfirmEvent.question = last_ret.arg
        /\ (LastConfirmEvent.answer = "Yes") = last_ret.value

\* A request enters setup_repository (api.py:253): it goes on to the test of
\* .git (258), or mkdir (255) fails and the request ends as a run that failed.
RunBegins ==
    /\ agent_pc \in {"idle", "done"}
    /\ handler' = "agent" \/ Len(runs') > Len(runs)

FreshOnlyOps == {"init", "create_remote", "checkout_main", "checkout_master"}

\* The metadata directory of dir exists.
GitDirOf(dir) == IF dir = app_dir THEN git_dir ELSE other_dir.git_dir

\* C31: a run takes the reuse path exactly when the metadata directory of
\* its working directory exists at its start, and without it the run takes
\* the fresh path or ends before either path because the working directory
\* could not be created; the metadata directory of a working directory, once
\* there, stays; and a run that found it neither initializes, nor registers
\* the remote, nor creates the branch from origin/main or origin/master, also
\* when the run before it failed on the fresh path.
C31_PathByMetadataDir ==
    [][ /\ RunBegins =>
              /\ (agent_pc' = "reuse_fetch") = GitDirOf(app_dir')
              /\ (agent_pc' \in {"init", "done"}) = ~GitDirOf(app_dir')
              /\ agent_pc' = "done" => ops' = <<"mkdir">> /\ ~dir_exists'
        /\ \A dir \in Dirs : GitDirOf(dir) => GitDirOf(dir)'
        /\ started'.reuse => Range(ops') \cap FreshOnlyOps = {}
        /\ (agent_pc' \in {"reuse_fetch", "create_head"}) => started'.reuse
      ]_vars

C31_Witness ==
    /\ Len(runs) = 2
    /\ ~runs[1].reuse
    /\ ~runs[1].ok
    /\ runs[2].reuse
    /\ runs[1].dir = runs[2].dir
    /\ agent_pc = "done"
    /\ ops = <<>>
    /\ agent_result.cause = "AttributeError"
    /\ remotes = {}

\* main() is constructing the coder (api_aider.py:195).
Constructing == handler = "init"

TokenReports == {i \in 1..Len(current_response) : "tokens_sent" \in DOMAIN current_response[i]}

Snapshots == {i \in 1..Len(current_response) : current_response[i].type = "files_status"}

\* C32: initialization installs the new session object, without a coder,
\* before the tool is constructed; during construction the buffer gets no
\* files_status event; a failed construction leaves the session without a
\* coder; without a coder every chat request taken is answered 'not
\* initialized', and only a construction that succeeds installs a coder.
C32_ReplacedBeforeConstruction ==
    [][ /\ SessionReplaced => (has_io' /\ ~coder' /\ current_response' = <<>>)
        /\ Constructing' => (~coder' /\ Snapshots' = {})
        /\ (Constructing /\ ~Constructing') =>
              /\ coder' = (result'.status = "initialized")
              /\ result'.status \in {"initialized", "exception"}
        /\ (~coder /\ coder') => Constructing
        /\ (~coder /\ ~Constructing /\ inbox' # inbox /\ inbox' \subseteq inbox
               /\ \E c \in Contents : ChatReq(c) \in inbox \ inbox') =>
              /\ result'.status = "http_400"
              /\ ~coder'
              /\ handler' = "idle"
      ]_vars

C32_Witness ==
    /\ has_io
    /\ ~coder
    /\ handler = "idle"
    /\ result.status = "http_400"
    /\ TokenReports # {}
    /\ Snapshots = {}

=============================================================================
